---------------------------- MODULE Spec2Model ----------------------------
(***************************************************************************)
(* The query package of stenographer: the lexer and the yacc-generated     *)
(* parser that turn a query text into a Query tree and a time envelope     *)
(* (NewQuery), and the evaluation of a Query tree against an index file    *)
(* (LookupIn).                                                             *)
(*                                                                         *)
(* Conventions.  A Go string is a sequence of one-character strings.  Go   *)
(* indexes from 0, so At(a, i) reads a[i].  A nil slice, a nil error and a *)
(* nil Query are the empty sequence.  A time.Time is the whole number of   *)
(* seconds since Go's zero Time (0001-01-01T00:00:00Z), so t.IsZero() is   *)
(* t = 0; a time.Duration is a whole number of seconds.                    *)
(***************************************************************************)
EXTENDS Integers, Sequences, FiniteSets, TLC

At(a, i) == a[i + 1]
Slice(s, lo, hi) == SubSeq(s, lo + 1, hi)
Nil == << >>

(***************************************************************************)
(* Token numbers returned by the lexer (y.go:42-62).                       *)
(***************************************************************************)
HOST == 57346
PORT == 57347
PROTO == 57348
AND == 57349
OR == 57350
NET == 57351
MASK == 57352
TCP == 57353
UDP == 57354
ICMP == 57355
BEFORE == 57356
AFTER == 57357
IPP == 57358
AGO == 57359
VLAN == 57360
MPLS == 57361
BETWEEN == 57362
IP == 57363
NUM == 57364
DURATION == 57365
TIME == 57366

\* The keyword map: each keyword's characters and its token.
tokens ==
  { << <<"a","f","t","e","r">>, AFTER >>,
    << <<"a","g","o">>, AGO >>,
    << <<"&","&">>, AND >>,
    << <<"a","n","d">>, AND >>,
    << <<"b","e","f","o","r","e">>, BEFORE >>,
    << <<"h","o","s","t">>, HOST >>,
    << <<"i","c","m","p">>, ICMP >>,
    << <<"i","p">>, IPP >>,
    << <<"m","a","s","k">>, MASK >>,
    << <<"n","e","t">>, NET >>,
    << <<"|","|">>, OR >>,
    << <<"o","r">>, OR >>,
    << <<"p","o","r","t">>, PORT >>,
    << <<"v","l","a","n">>, VLAN >>,
    << <<"m","p","l","s">>, MPLS >>,
    << <<"p","r","o","t","o">>, PROTO >>,
    << <<"t","c","p">>, TCP >>,
    << <<"u","d","p">>, UDP >>,
    << <<"b","e","t","w","e","e","n">>, BETWEEN >> }

(***************************************************************************)
(* Characters.                                                             *)
(***************************************************************************)
DecDigits == {"0","1","2","3","4","5","6","7","8","9"}
HexDigits == DecDigits \cup {"a","b","c","d","e","f"}
HexVal ==
  [c \in HexDigits |->
     CASE c = "0" -> 0 [] c = "1" -> 1 [] c = "2" -> 2 [] c = "3" -> 3
       [] c = "4" -> 4 [] c = "5" -> 5 [] c = "6" -> 6 [] c = "7" -> 7
       [] c = "8" -> 8 [] c = "9" -> 9 [] c = "a" -> 10 [] c = "b" -> 11
       [] c = "c" -> 12 [] c = "d" -> 13 [] c = "e" -> 14 [] c = "f" -> 15]

\* unicode.IsSpace on a byte of the input.
IsSpace(c) == c \in {" ", "\t", "\n", "\r", "\f"}

\* int(c) for the punctuation the lexer returns as itself.
CharCode(c) ==
  CASE c = "(" -> 40 [] c = ")" -> 41 [] c = "/" -> 47
    [] c = ":" -> 58 [] c = "." -> 46

\* strings.HasPrefix(s[p:], t)
HasPrefixAt(s, p, t) ==
  /\ p + Len(t) <= Len(s)
  /\ \A i \in 1..Len(t) : s[p + i] = t[i]

\* The position of the first occurrence of character c in s (0-based), or -1.
RECURSIVE IndexFrom(_, _, _)
IndexFrom(s, c, i) ==
  IF i >= Len(s) THEN -1
  ELSE IF At(s, i) = c THEN i ELSE IndexFrom(s, c, i + 1)
IndexOf(s, c) == IndexFrom(s, c, 0)

(***************************************************************************)
(* The library decoders the lexer calls.  Each returns [ok, v].            *)
(***************************************************************************)
\* The value of a run of decimal digits.
RECURSIVE DecValue(_)
DecValue(s) ==
  IF s = << >> THEN 0
  ELSE 10 * DecValue(SubSeq(s, 1, Len(s) - 1)) + HexVal[s[Len(s)]]

AllDec(s) == \A i \in 1..Len(s) : s[i] \in DecDigits

\* strconv.Atoi on a run of hexadecimal digits: decimal digits only.
Atoi(part) ==
  IF part # << >> /\ AllDec(part)
  THEN [ok |-> TRUE, v |-> DecValue(part)]
  ELSE [ok |-> FALSE, v |-> 0]

Minute == 60
Hour == 3600

\* time.ParseDuration on a run that ends in m or h: <decimal digits><unit>.
ParseDuration(part) ==
  LET digits == SubSeq(part, 1, Len(part) - 1)
      unit == part[Len(part)]
  IN IF Len(part) >= 2 /\ AllDec(digits) /\ unit \in {"m", "h"}
     THEN [ok |-> TRUE,
           v |-> DecValue(digits) * (IF unit = "m" THEN Minute ELSE Hour)]
     ELSE [ok |-> FALSE, v |-> 0]

\* net.ParseIP, dotted quad: four decimal fields of at most three digits, each
\* at most 255 and without a leading zero.
RECURSIVE SplitOn(_, _)
SplitOn(s, c) ==
  LET i == IndexOf(s, c)
  IN IF i < 0 THEN << s >>
     ELSE << Slice(s, 0, i) >> \o SplitOn(Slice(s, i + 1, Len(s)), c)

IPv4Field(f) ==
  /\ Len(f) \in 1..3
  /\ AllDec(f)
  /\ (Len(f) > 1 => f[1] # "0")
  /\ DecValue(f) <= 255

parseIPv4(s) ==
  LET fs == SplitOn(s, ".")
  IN IF Len(fs) = 4 /\ \A i \in 1..4 : IPv4Field(fs[i])
     THEN [i \in 1..4 |-> DecValue(fs[i])]
     ELSE Nil

\* The value of a run of hexadecimal digits.
RECURSIVE HexValue(_)
HexValue(s) ==
  IF s = << >> THEN 0
  ELSE 16 * HexValue(SubSeq(s, 1, Len(s) - 1)) + HexVal[s[Len(s)]]

\* The length of the run of hexadecimal digits s starts with.
RECURSIVE HexRun(_, _)
HexRun(s, i) ==
  IF i < Len(s) /\ At(s, i) \in HexDigits THEN HexRun(s, i + 1) ELSE i

Zeros(n) == [i \in 1..n |-> 0]

\* The end of net.parseIPv6: nothing may be left of the text, and a short
\* address is widened with zeros at its "::".
ExpandEllipsis(bytes, rest, ellipsis) ==
  IF rest # << >> THEN Nil
  ELSE IF Len(bytes) < 16
       THEN IF ellipsis < 0 THEN Nil
            ELSE Slice(bytes, 0, ellipsis) \o Zeros(16 - Len(bytes))
                   \o Slice(bytes, ellipsis, Len(bytes))
       ELSE IF ellipsis >= 0 THEN Nil ELSE bytes

\* net.parseIPv6's loop: s is what is left of the text, ip the bytes written so
\* far, ellipsis the byte position of "::" (or -1).  Returns 16 bytes or nil.
RECURSIVE parseIPv6Loop(_, _, _)
parseIPv6Loop(s, ip, ellipsis) ==
  LET c == HexRun(s, 0)
      n == HexValue(Slice(s, 0, c))
      i == Len(ip)
  IN IF i >= 16 THEN ExpandEllipsis(ip, s, ellipsis)
     ELSE IF c = 0 \/ c > 4 THEN Nil
     ELSE IF c < Len(s) /\ At(s, c) = "."
          THEN LET ip4 == parseIPv4(s)
               IN IF (ellipsis < 0 /\ i # 12) \/ i + 4 > 16 \/ ip4 = Nil
                  THEN Nil
                  ELSE ExpandEllipsis(ip \o ip4, << >>, ellipsis)
     ELSE LET ip2 == ip \o << n \div 256, n % 256 >>
              s2 == Slice(s, c, Len(s))
          IN IF s2 = << >> THEN ExpandEllipsis(ip2, s2, ellipsis)
             ELSE IF s2[1] # ":" \/ Len(s2) = 1 THEN Nil
             ELSE LET s3 == Slice(s2, 1, Len(s2))
                  IN IF s3[1] = ":"
                     THEN IF ellipsis >= 0 THEN Nil
                          ELSE IF Len(s3) = 1
                               THEN ExpandEllipsis(ip2, << >>, Len(ip2))
                               ELSE parseIPv6Loop(Slice(s3, 1, Len(s3)), ip2, Len(ip2))
                     ELSE parseIPv6Loop(s3, ip2, ellipsis)

parseIPv6(s) ==
  IF Len(s) >= 2 /\ s[1] = ":" /\ s[2] = ":"
  THEN IF Len(s) = 2 THEN Zeros(16)
       ELSE parseIPv6Loop(Slice(s, 2, Len(s)), << >>, 0)
  ELSE parseIPv6Loop(s, << >>, -1)

\* net.ParseIP: the first of "." and ":" in the text decides the family.
RECURSIVE FirstSep(_, _)
FirstSep(s, i) ==
  IF i >= Len(s) THEN ""
  ELSE IF At(s, i) \in {".", ":"} THEN At(s, i) ELSE FirstSep(s, i + 1)

ParseIP(s) ==
  CASE FirstSep(s, 0) = "." -> parseIPv4(s)
    [] FirstSep(s, 0) = ":" -> parseIPv6(s)
    [] OTHER -> Nil

\* net.IP.To4: the four-byte form of an IPv4-mapped address, else nil.
To4(ip) ==
  IF Len(ip) = 4 THEN ip
  ELSE IF /\ Len(ip) = 16
          /\ \A i \in 1..10 : ip[i] = 0
          /\ ip[11] = 255 /\ ip[12] = 255
       THEN SubSeq(ip, 13, 16)
       ELSE Nil


\* time.Parse(time.RFC3339, part) for the layout without fractional seconds,
\* YYYY-MM-DDTHH:MM:SS followed by Z or by +HH:MM or -HH:MM.  The value is the
\* instant in seconds since 0001-01-01T00:00:00Z.
IsLeap(y) == y % 4 = 0 /\ (y % 100 # 0 \/ y % 400 = 0)

DaysIn(m, y) ==
  CASE m = 2 -> IF IsLeap(y) THEN 29 ELSE 28
    [] m \in {4, 6, 9, 11} -> 30
    [] OTHER -> 31

RECURSIVE DaysBeforeMonth(_, _)
DaysBeforeMonth(m, y) ==
  IF m <= 1 THEN 0 ELSE DaysBeforeMonth(m - 1, y) + DaysIn(m - 1, y)

DaysBeforeYear(y) ==
  365 * (y - 1) + ((y - 1) \div 4) - ((y - 1) \div 100) + ((y - 1) \div 400)

Field(s, lo, n) == Slice(s, lo, lo + n)

ParseTime(part) ==
  LET bad == [ok |-> FALSE, v |-> 0]
      n == Len(part)
      zoned == n = 25 /\ At(part, 19) \in {"+", "-"} /\ At(part, 22) = ":"
                 /\ AllDec(Field(part, 20, 2)) /\ AllDec(Field(part, 23, 2))
      utc == n = 20 /\ At(part, 19) = "Z"
  IN IF ~ ( /\ (utc \/ zoned)
            /\ AllDec(Field(part, 0, 4)) /\ At(part, 4) = "-"
            /\ AllDec(Field(part, 5, 2)) /\ At(part, 7) = "-"
            /\ AllDec(Field(part, 8, 2)) /\ At(part, 10) = "T"
            /\ AllDec(Field(part, 11, 2)) /\ At(part, 13) = ":"
            /\ AllDec(Field(part, 14, 2)) /\ At(part, 16) = ":"
            /\ AllDec(Field(part, 17, 2)) )
     THEN bad
     ELSE LET y == DecValue(Field(part, 0, 4))
              mo == DecValue(Field(part, 5, 2))
              d == DecValue(Field(part, 8, 2))
              h == DecValue(Field(part, 11, 2))
              mi == DecValue(Field(part, 14, 2))
              sec == DecValue(Field(part, 17, 2))
              zh == IF zoned THEN DecValue(Field(part, 20, 2)) ELSE 0
              zm == IF zoned THEN DecValue(Field(part, 23, 2)) ELSE 0
              off == (IF zoned /\ At(part, 19) = "-" THEN -1 ELSE 1)
                       * (zh * Hour + zm * Minute)
          IN IF \/ mo \notin 1..12 \/ d < 1 \/ d > DaysIn(mo, y)
                \/ h > 23 \/ mi > 59 \/ sec > 59 \/ zh > 23 \/ zm > 59
             THEN bad
             ELSE [ok |-> TRUE,
                   v |-> (DaysBeforeYear(y) + DaysBeforeMonth(mo, y) + (d - 1))
                            * 24 * Hour
                         + h * Hour + mi * Minute + sec - off]

(***************************************************************************)
(* The lexer, parserLex.Lex.                                               *)
(***************************************************************************)
\* The semantic value of a symbol, parserSymType without yys and str.
ZeroSym == [num |-> 0, ip |-> Nil, query |-> Nil, dur |-> 0, time |-> 0]

\* Lex's first loop: the position of the first non-space at or after p.
RECURSIVE SkipSpace(_, _)
SkipSpace(in, p) ==
  IF p < Len(in) /\ IsSpace(At(in, p)) THEN SkipSpace(in, p + 1) ELSE p

\* Lex's third loop (label L): the end of the literal run that starts at p and
\* what was seen in it.
RECURSIVE ScanRun(_, _, _, _)
ScanRun(in, p, isIP, isTime) ==
  IF p >= Len(in)
  THEN [pos |-> p, isIP |-> isIP, isDuration |-> FALSE, isTime |-> isTime]
  ELSE LET c == At(in, p)
       IN CASE c \in {":", "."} -> ScanRun(in, p + 1, TRUE, isTime)
            [] c \in HexDigits -> ScanRun(in, p + 1, isIP, isTime)
            [] c \in {"m", "h"} ->
                 [pos |-> p + 1, isIP |-> isIP, isDuration |-> TRUE,
                  isTime |-> isTime]
            [] c \in {"-", "T", "+", "Z"} -> ScanRun(in, p + 1, isIP, TRUE)
            [] OTHER ->
                 [pos |-> p, isIP |-> isIP, isDuration |-> FALSE,
                  isTime |-> isTime]

\* The classification of the run in[s:pos] and the token it makes: Lex's
\* switch and what follows it.  errs are the messages passed to x.Error.
Classify(in, s, run, yylval) ==
  LET pos == run.pos
      part == Slice(in, s, pos)
      tok(ret, p, lv, errs) == [ret |-> ret, pos |-> p, lval |-> lv, errs |-> errs]
  IN CASE run.isTime ->
            LET t == ParseTime(part)
            IN tok(TIME, pos, [yylval EXCEPT !.time = t.v],
                   IF t.ok THEN << >> ELSE << <<"bad time", part>> >>)
       [] ~run.isTime /\ run.isIP ->
            LET ip == ParseIP(part)
            IN IF ip = Nil
               THEN tok(-1, pos, [yylval EXCEPT !.ip = Nil], << <<"bad IP", part>> >>)
               ELSE tok(IP, pos,
                        [yylval EXCEPT !.ip = IF To4(ip) # Nil THEN To4(ip) ELSE ip],
                        << >>)
       [] ~run.isTime /\ ~run.isIP /\ run.isDuration ->
            LET d == ParseDuration(part)
            IN tok(DURATION, pos, [yylval EXCEPT !.dur = d.v],
                   IF d.ok THEN << >> ELSE << <<"bad duration", part>> >>)
       [] ~run.isTime /\ ~run.isIP /\ ~run.isDuration /\ pos # s ->
            LET n == Atoi(part)
            IN IF n.ok THEN tok(NUM, pos, [yylval EXCEPT !.num = n.v], << >>)
               ELSE tok(-1, pos, yylval, << >>)
       [] OTHER ->
            IF pos >= Len(in) THEN tok(0, pos, yylval, << >>)
            ELSE IF At(in, pos) \in {":", ".", "(", ")", "/"}
                 THEN tok(CharCode(At(in, pos)), pos + 1, yylval, << >>)
                 ELSE tok(-1, pos, yylval, << >>)

\* x.Lex(yylval) with x.in = in and x.pos = pos0: the token returned, the new
\* x.pos, the new *yylval and the messages passed to x.Error (each at the
\* position x.pos has after the run).
Lex(in, pos0, yylval) ==
  LET p == SkipSpace(in, pos0)
      kw == {t \in tokens : HasPrefixAt(in, p, t[1])}
  IN IF kw # {}
     THEN LET t == CHOOSE t \in kw : TRUE
          IN [ret |-> t[2], pos |-> p + Len(t[1]), lval |-> yylval, errs |-> << >>]
     ELSE Classify(in, p, ScanRun(in, p, FALSE, FALSE), yylval)

(***************************************************************************)
(* The generated tables (yacctab).                                         *)
(***************************************************************************)
parserEofCode == 1
parserErrCode == 2
parserPrivate == 57344
parserLast == 44
parserFlag == -1000

parserExca == << -1, 1, 1, -1, -2, 0 >>

parserAct ==
  << 26, 28, 27, 39, 35, 33, 17, 18, 22, 21,
     20, 40, 24, 4, 5, 3, 29, 30, 9, 34,
     11, 12, 13, 14, 15, 8, 36, 6, 7, 16,
     37, 19, 2, 31, 32, 10, 17, 18, 38, 41,
     23, 1, 0, 25 >>

parserPact ==
  << 9, -1000, 29, -1000, 10, -12, -13, -14, 34, -9,
     9, -1000, -1000, -1000, -22, -22, -22, 9, 9, -1000,
     -1000, -1000, -1000, -17, -6, -1, -1000, -1000, 13, -1000,
     31, -1000, -1000, -1000, -19, -10, -1000, -1000, -22, -1000,
     -1000, -1000 >>

parserPgo == << 0, 41, 32, 15, 0 >>

parserR1 ==
  << 0, 1, 2, 2, 2, 3, 3, 3, 3, 3,
     3, 3, 3, 3, 3, 3, 3, 3, 3, 4,
     4 >>

parserR2 ==
  << 0, 1, 1, 3, 3, 2, 2, 2, 2, 3,
     4, 4, 3, 1, 1, 1, 2, 2, 4, 1,
     2 >>

parserChk ==
  << -1000, -1, -2, -3, 4, 5, 18, 19, 16, 9,
     26, 11, 12, 13, 14, 15, 20, 7, 8, 21,
     22, 22, 22, 6, 21, -2, -4, 24, 23, -4,
     -4, -3, -3, 22, 25, 10, 27, 17, 7, 22,
     21, -4 >>

parserDef ==
  << 0, -2, 1, 2, 0, 0, 0, 0, 0, 0,
     0, 13, 14, 15, 0, 0, 0, 0, 0, 5,
     6, 7, 8, 0, 0, 0, 16, 19, 0, 17,
     0, 3, 4, 9, 0, 0, 12, 20, 0, 10,
     11, 18 >>

parserTok1 ==
  << 1, 3, 3, 3, 3, 3, 3, 3, 3, 3,
     3, 3, 3, 3, 3, 3, 3, 3, 3, 3,
     3, 3, 3, 3, 3, 3, 3, 3, 3, 3,
     3, 3, 3, 3, 3, 3, 3, 3, 3, 3,
     26, 27, 3, 3, 3, 3, 3, 25 >>

parserTok2 ==
  << 2, 3, 4, 5, 6, 7, 8, 9, 10, 11,
     12, 13, 14, 15, 16, 17, 18, 19, 20, 21,
     22, 23, 24 >>

parserTok3 == << 0 >>

\* parserlex1 after lex.Lex returned char: the token in the parser's numbering.
RECURSIVE Tok3Scan(_, _)
Tok3Scan(char, i) ==
  IF i >= Len(parserTok3) THEN IF i = 0 THEN 0 ELSE At(parserTok3, i - 2)
  ELSE IF At(parserTok3, i) = char THEN At(parserTok3, i + 1)
  ELSE Tok3Scan(char, i + 2)

parserlex1(char) ==
  LET token ==
        IF char <= 0 THEN At(parserTok1, 0)
        ELSE IF char < Len(parserTok1) THEN At(parserTok1, char)
        ELSE IF char >= parserPrivate /\ char < parserPrivate + Len(parserTok2)
             THEN At(parserTok2, char - parserPrivate)
        ELSE Tok3Scan(char, 0)
  IN IF token = 0 THEN At(parserTok2, 1) ELSE token

\* The exception table: the action of state st on token.
RECURSIVE ExcaRow(_, _)
ExcaRow(st, xi) ==
  IF At(parserExca, xi) = -1 /\ At(parserExca, xi + 1) = st THEN xi
  ELSE ExcaRow(st, xi + 2)

RECURSIVE ExcaScan(_, _)
ExcaScan(token, xi) ==
  IF At(parserExca, xi) < 0 \/ At(parserExca, xi) = token
  THEN At(parserExca, xi + 1)
  ELSE ExcaScan(token, xi + 2)

ExcaAction(st, token) == ExcaScan(token, ExcaRow(st, 0) + 2)

\* Whether the state consults the lookahead (parsernewstate, parserdefault).
\* No state has both a shift row and an exception row, so one decision reads
\* at most one token.
NeedsLookahead(st) ==
  At(parserPact, st) > parserFlag \/ At(parserDef, st) = -2

\* The state a valid shift of token leads to from st, or -1.
ShiftTarget(st, token) ==
  LET n == At(parserPact, st) + token
  IN IF At(parserPact, st) > parserFlag /\ n >= 0 /\ n < parserLast
        /\ At(parserChk, At(parserAct, n)) = token
     THEN At(parserAct, n)
     ELSE -1

\* The default action of st when no shift is valid: a production number, 0
\* for an error, a negative number to accept.
DefaultAction(st, token) ==
  IF At(parserDef, st) = -2 THEN ExcaAction(st, token) ELSE At(parserDef, st)

\* The goto table: the state after reducing to nonterminal nt with state below
\* on the stack.
GotoState(nt, below) ==
  LET g == At(parserPgo, nt)
      j == g + below + 1
  IN IF j >= parserLast THEN At(parserAct, g)
     ELSE IF At(parserChk, At(parserAct, j)) # -nt THEN At(parserAct, g)
     ELSE At(parserAct, j)

\* Whether the "error" token can be shifted in state st (error recovery).
ErrorShift(st) ==
  LET n == At(parserPact, st) + parserErrCode
  IN n >= 0 /\ n < parserLast /\ At(parserChk, At(parserAct, n)) = parserErrCode

(***************************************************************************)
(* Query values.  A leaf is <<kind, ...>>; a composite holds the sequence  *)
(* of its children, as unionQuery and intersectQuery are slices of Query.  *)
(***************************************************************************)
\* uint16(n), byte(n).  uint32(n) is n itself for every int the lexer makes
\* that the model can hold.
portQuery(n) == << "port", n % 65536 >>
vlanQuery(n) == << "vlan", n % 65536 >>
mplsQuery(n) == << "mpls", n >>
protocolQuery(n) == << "proto", n % 256 >>
ipQuery(from, to) == << "ip", from, to >>
timeQuery(t0, t1) == << "time", t0, t1 >>
intersectQuery(qs) == << "and", qs >>
unionQuery(qs) == << "or", qs >>

\* a & b and a | b on bytes.
RECURSIVE BitAnd(_, _)
BitAnd(a, b) ==
  IF a = 0 \/ b = 0 THEN 0
  ELSE (a % 2) * (b % 2) + 2 * BitAnd(a \div 2, b \div 2)

RECURSIVE BitOr(_, _)
BitOr(a, b) ==
  IF a = 0 THEN b
  ELSE IF b = 0 THEN a
  ELSE (IF a % 2 = 1 \/ b % 2 = 1 THEN 1 ELSE 0) + 2 * BitOr(a \div 2, b \div 2)

\* ^m on a byte.
BitNot(m) == 255 - m

\* 0xff >> n on a byte.
RECURSIVE ShiftRight(_, _)
ShiftRight(b, n) == IF n = 0 THEN b ELSE ShiftRight(b \div 2, n - 1)

\* net.CIDRMask(ones, bits): nil unless bits is 32 or 128 and 0 <= ones <= bits.
CIDRMask(ones, bits) ==
  IF bits \notin {32, 128} \/ ones < 0 \/ ones > bits THEN Nil
  ELSE [i \in 1..(bits \div 8) |->
          IF ones >= 8 * i THEN 255
          ELSE IF ones <= 8 * (i - 1) THEN 0
          ELSE BitNot(ShiftRight(255, ones - 8 * (i - 1)))]

\* Variant: the upper end taken with the mask itself, not its complement.
ipsFromNet_NoComplement(ip, mask) ==
  IF Len(ip) # Len(mask) \/ (Len(ip) # 4 /\ Len(ip) # 16)
  THEN [from |-> Nil, to |-> Nil, err |-> << "bad IP or mask", ip, mask >>]
  ELSE [from |-> [i \in 1..Len(ip) |-> BitAnd(ip[i], mask[i])],
        to |-> [i \in 1..Len(ip) |-> BitOr(ip[i], mask[i])],
        err |-> Nil]

ipsFromNet(ip, mask) ==
  IF Len(ip) # Len(mask) \/ (Len(ip) # 4 /\ Len(ip) # 16)
  THEN [from |-> Nil, to |-> Nil, err |-> << "bad IP or mask", ip, mask >>]
  ELSE [from |-> [i \in 1..Len(ip) |-> BitAnd(ip[i], mask[i])],
        to |-> [i \in 1..Len(ip) |-> BitOr(ip[i], BitNot(mask[i]))],
        err |-> Nil]

(***************************************************************************)
(* The state.                                                              *)
(***************************************************************************)
VARIABLES
  lex,          \* the parserLex of the call: now, in, pos, out, err, startTime, stopTime
  parserS,      \* the parser's stack: entries [yys, val], the top last
  parserstate,  \* the state the parser is in
  char,         \* parserrcvr.char: the lookahead as Lex returned it, -1 when none
  parsertoken,  \* the lookahead in the parser's numbering
  lval,         \* parserrcvr.lval
  Errflag,      \* the error recovery flag
  pc,           \* where the call is: start, newstate, decide, ret0, ret1, done
  ret,          \* what NewQuery returned: [query, start, stop, err], or nil
  clock,        \* the wall clock, which time.Now() reads
  errlog,       \* every call of x.Error so far: <<message, x.pos>>, in order
  given,        \* how the query text was put together
  query,        \* the Query LookupIn is called on, or nil
  index,        \* the index file it is looked up in
  found,        \* what LookupIn returned: [pos, err, trace]
  stats,        \* the lookup counters
  span,         \* a GetTimeSpan call: the bounds given and returned, or nil
  rendered,     \* what String returned for the tree, or nil
  calls         \* the LookupIn calls in flight on the tree, one per caller

vars ==
  << lex, parserS, parserstate, char, parsertoken, lval, Errflag, pc, ret,
     clock, errlog, given, query, index, found, stats, span, rendered, calls >>

(***************************************************************************)
(* parserLex's methods.                                                    *)
(***************************************************************************)
\* The error value x.Error(s) makes: the message and the position (the quoted
\* halves of the input follow from the position).
Errorf(s, pos) == << s, pos >>

\* Variant: a sink that keeps the last error.
Error_LastWins(x, s) == [x EXCEPT !.err = Errorf(s, x.pos)]

\* parserLex.Error: the sink keeps an error only while it holds none.
Error(x, s) ==
  IF x.err = Nil THEN [x EXCEPT !.err = Errorf(s, x.pos)] ELSE x

\* x.Error called with each of msgs in turn.
RECURSIVE Errors(_, _)
Errors(x, msgs) ==
  IF msgs = << >> THEN x ELSE Errors(Error(x, Head(msgs)), Tail(msgs))

\* What errlog gains from those calls.
Logged(x, msgs) == [i \in 1..Len(msgs) |-> Errorf(msgs[i], x.pos)]

IsZero(t) == t = 0
After(t, u) == t > u
Before(t, u) == t < u

HandleAfter(x, after) ==
  IF IsZero(x.startTime) \/ After(x.startTime, after)
  THEN [x EXCEPT !.startTime = after] ELSE x

HandleBefore(x, before) ==
  IF IsZero(x.stopTime) \/ Before(x.stopTime, before)
  THEN [x EXCEPT !.stopTime = before] ELSE x

HandleBetween(x, startTime, stopTime) ==
  LET x1 == IF IsZero(x.startTime) \/ After(x.startTime, startTime)
            THEN [x EXCEPT !.startTime = startTime] ELSE x
  IN IF IsZero(x1.stopTime) \/ Before(x1.stopTime, stopTime)
     THEN [x1 EXCEPT !.stopTime = stopTime] ELSE x1

(***************************************************************************)
(* The grammar's actions (the switch on the production number in Parse).   *)
(* D is parserDollar, so At(D, k).val is $k; each returns the value $$ of  *)
(* the production, the lexer object after the action's calls other than    *)
(* Error, and the messages the action passes to Error, in order.           *)
(***************************************************************************)
Dollar(D, k) == At(D, k).val

Reduced(val, x, errs) == [val |-> val, x |-> x, errs |-> errs]

\* top: query
Sem1(D, x) == Reduced(Dollar(D, 1), [x EXCEPT !.out = Dollar(D, 1).query], << >>)

\* Variant: the rule of AND with its children the other way round.
Sem3_Swapped(D, x) ==
  Reduced([Dollar(D, 1) EXCEPT
             !.query = intersectQuery(<< Dollar(D, 3).query, Dollar(D, 1).query >>)],
          x, << >>)

\* query: query AND term
Sem3(D, x) ==
  Reduced([Dollar(D, 1) EXCEPT
             !.query = intersectQuery(<< Dollar(D, 1).query, Dollar(D, 3).query >>)],
          x, << >>)

\* query: query OR term
Sem4(D, x) ==
  Reduced([Dollar(D, 1) EXCEPT
             !.query = unionQuery(<< Dollar(D, 1).query, Dollar(D, 3).query >>)],
          x, << >>)

\* term: HOST IP
Sem5(D, x) ==
  Reduced([Dollar(D, 1) EXCEPT !.query = ipQuery(Dollar(D, 2).ip, Dollar(D, 2).ip)],
          x, << >>)

\* Variant: the rule of PORT with the upper bound off by one.
Sem6_OffByOne(D, x) ==
  LET n == Dollar(D, 2).num
  IN Reduced([Dollar(D, 1) EXCEPT !.query = portQuery(n)], x,
             IF n < 0 \/ n > 65536 THEN << <<"invalid port", n>> >> ELSE << >>)

\* term: PORT NUM
Sem6(D, x) ==
  LET n == Dollar(D, 2).num
  IN Reduced([Dollar(D, 1) EXCEPT !.query = portQuery(n)], x,
             IF n < 0 \/ n >= 65536 THEN << <<"invalid port", n>> >> ELSE << >>)

\* term: VLAN NUM
Sem7(D, x) ==
  LET n == Dollar(D, 2).num
  IN Reduced([Dollar(D, 1) EXCEPT !.query = vlanQuery(n)], x,
             IF n < 0 \/ n >= 65536 THEN << <<"invalid vlan", n>> >> ELSE << >>)

\* term: MPLS NUM
Sem8(D, x) ==
  LET n == Dollar(D, 2).num
  IN Reduced([Dollar(D, 1) EXCEPT !.query = mplsQuery(n)], x,
             IF n < 0 \/ n >= 1048576 THEN << <<"invalid mpls", n>> >> ELSE << >>)

\* term: IPP PROTO NUM
Sem9(D, x) ==
  LET n == Dollar(D, 3).num
  IN Reduced([Dollar(D, 1) EXCEPT !.query = protocolQuery(n)], x,
             IF n < 0 \/ n >= 256 THEN << <<"invalid proto", n>> >> ELSE << >>)

\* term: NET IP '/' NUM
Sem10(D, x) ==
  LET ip == Dollar(D, 2).ip
      n == Dollar(D, 4).num
      mask == CIDRMask(n, Len(ip) * 8)
      r == ipsFromNet(ip, mask)
  IN Reduced([Dollar(D, 1) EXCEPT !.query = ipQuery(r.from, r.to)], x,
             (IF mask = Nil THEN << <<"bad cidr", ip, n>> >> ELSE << >>)
               \o (IF r.err # Nil THEN << r.err >> ELSE << >>))

\* term: NET IP MASK IP
Sem11(D, x) ==
  LET r == ipsFromNet(Dollar(D, 2).ip, Dollar(D, 4).ip)
  IN Reduced([Dollar(D, 1) EXCEPT !.query = ipQuery(r.from, r.to)], x,
             IF r.err # Nil THEN << r.err >> ELSE << >>)

\* term: '(' query ')'
Sem12(D, x) ==
  Reduced([Dollar(D, 1) EXCEPT !.query = Dollar(D, 2).query], x, << >>)

\* term: TCP, UDP, ICMP
Sem13(D, x) == Reduced([Dollar(D, 1) EXCEPT !.query = protocolQuery(6)], x, << >>)
Sem14(D, x) == Reduced([Dollar(D, 1) EXCEPT !.query = protocolQuery(17)], x, << >>)
Sem15(D, x) == Reduced([Dollar(D, 1) EXCEPT !.query = protocolQuery(1)], x, << >>)

\* term: BEFORE time
Sem16(D, x) ==
  Reduced([Dollar(D, 1) EXCEPT !.query = timeQuery(0, Dollar(D, 2).time)],
          HandleBefore(x, Dollar(D, 2).time), << >>)

\* term: AFTER time
Sem17(D, x) ==
  Reduced([Dollar(D, 1) EXCEPT !.query = timeQuery(Dollar(D, 2).time, 0)],
          HandleAfter(x, Dollar(D, 2).time), << >>)

\* Variant: the rule of BETWEEN with the comparison >= in place of After.
Sem18_RejectsEqual(D, x) ==
  LET t1 == Dollar(D, 2).time
      t2 == Dollar(D, 4).time
  IN Reduced([Dollar(D, 1) EXCEPT !.query = timeQuery(t1, t2)],
             HandleBetween(x, t1, t2),
             IF t1 >= t2
             THEN << <<"first timestamp must be less than or equal to second", t1, t2>> >>
             ELSE << >>)

\* term: BETWEEN time AND time
Sem18(D, x) ==
  LET t1 == Dollar(D, 2).time
      t2 == Dollar(D, 4).time
  IN Reduced([Dollar(D, 1) EXCEPT !.query = timeQuery(t1, t2)],
             HandleBetween(x, t1, t2),
             IF After(t1, t2)
             THEN << <<"first timestamp must be less than or equal to second", t1, t2>> >>
             ELSE << >>)

\* time: TIME
Sem19(D, x) == Reduced([Dollar(D, 1) EXCEPT !.time = Dollar(D, 1).time], x, << >>)

\* time: DURATION AGO
Sem20(D, x) ==
  Reduced([Dollar(D, 1) EXCEPT !.time = x.now - Dollar(D, 1).dur], x, << >>)

(***************************************************************************)
(* The parser, parserParserImpl.Parse, one decision at a time, and parse.  *)
(***************************************************************************)
\* The decision is due: the lookahead, if this state consults it, is there.
Ready ==
  \/ pc = "decide"
  \/ pc = "newstate" /\ ~(NeedsLookahead(parserstate) /\ char < 0)

Running == pc \in {"start", "newstate", "decide"}

\* Parse's prologue and the first pass through parserstack.
ParseStart ==
  /\ pc = "start"
  /\ parserS' = << [yys |-> 0, val |-> ZeroSym] >>
  /\ parserstate' = 0
  /\ char' = -1
  /\ parsertoken' = -1
  /\ Errflag' = 0
  /\ pc' = "newstate"
  /\ UNCHANGED << lex, lval, ret, clock, errlog, given, query, index, found, stats, span, rendered, calls >>

\* parserlex1: the state consults the lookahead and there is none.
ReadToken ==
  /\ pc = "newstate"
  /\ NeedsLookahead(parserstate)
  /\ char < 0
  /\ LET r == Lex(lex.in, lex.pos, lval)
         x == [lex EXCEPT !.pos = r.pos]
     IN /\ lex' = Errors(x, r.errs)
        /\ errlog' = errlog \o Logged(x, r.errs)
        /\ lval' = r.lval
        /\ char' = r.ret
        /\ parsertoken' = parserlex1(r.ret)
  /\ pc' = "decide"
  /\ UNCHANGED << parserS, parserstate, Errflag, ret, clock, given, query, index, found, stats, span, rendered, calls >>

\* A valid shift, and parserstack.
Shift ==
  /\ Ready
  /\ ShiftTarget(parserstate, parsertoken) >= 0
  /\ LET n == ShiftTarget(parserstate, parsertoken)
     IN /\ parserstate' = n
        /\ parserS' = Append(parserS, [yys |-> n, val |-> lval])
  /\ char' = -1
  /\ parsertoken' = -1
  /\ Errflag' = IF Errflag > 0 THEN Errflag - 1 ELSE Errflag
  /\ pc' = "newstate"
  /\ UNCHANGED << lex, lval, ret, clock, errlog, given, query, index, found, stats, span, rendered, calls >>

\* The default action of the state is the reduction by production n.
Reducing(n) ==
  /\ Ready
  /\ ShiftTarget(parserstate, parsertoken) < 0
  /\ DefaultAction(parserstate, parsertoken) = n

\* parserDollar for production n: $0..$len, the top len+1 entries of the stack.
Dollars(n) == SubSeq(parserS, Len(parserS) - At(parserR2, n), Len(parserS))

\* The reduction by production n whose action gave r: the pop, the goto and
\* parserstack.
Reduce(n, r) ==
  LET len == At(parserR2, n)
      top == Len(parserS)
      st == GotoState(At(parserR1, n), parserS[top - len].yys)
  IN /\ parserS' = Append(SubSeq(parserS, 1, top - len), [yys |-> st, val |-> r.val])
     /\ parserstate' = st
     /\ lex' = Errors(r.x, r.errs)
     /\ errlog' = errlog \o Logged(r.x, r.errs)
     /\ pc' = "newstate"
     /\ UNCHANGED << char, parsertoken, lval, Errflag, ret, clock, given, query, index, found, stats, span, rendered, calls >>

\* top: query
Production1 ==
  /\ Reducing(1)
  /\ Reduce(1, Sem1(Dollars(1), lex))

\* query: term (the default action, $$ = $1)
Production2 ==
  /\ Reducing(2)
  /\ Reduce(2, Reduced(Dollar(Dollars(2), 1), lex, << >>))

\* query: query AND term
Production3 ==
  /\ Reducing(3)
  /\ Reduce(3, Sem3(Dollars(3), lex))

\* query: query OR term
Production4 ==
  /\ Reducing(4)
  /\ Reduce(4, Sem4(Dollars(4), lex))

\* term: HOST IP
Production5 ==
  /\ Reducing(5)
  /\ Reduce(5, Sem5(Dollars(5), lex))

\* term: PORT NUM
Production6 ==
  /\ Reducing(6)
  /\ Reduce(6, Sem6(Dollars(6), lex))

\* term: VLAN NUM
Production7 ==
  /\ Reducing(7)
  /\ Reduce(7, Sem7(Dollars(7), lex))

\* term: MPLS NUM
Production8 ==
  /\ Reducing(8)
  /\ Reduce(8, Sem8(Dollars(8), lex))

\* term: IPP PROTO NUM
Production9 ==
  /\ Reducing(9)
  /\ Reduce(9, Sem9(Dollars(9), lex))

\* term: NET IP '/' NUM
Production10 ==
  /\ Reducing(10)
  /\ Reduce(10, Sem10(Dollars(10), lex))

\* term: NET IP MASK IP
Production11 ==
  /\ Reducing(11)
  /\ Reduce(11, Sem11(Dollars(11), lex))

\* term: '(' query ')'
Production12 ==
  /\ Reducing(12)
  /\ Reduce(12, Sem12(Dollars(12), lex))

\* term: TCP
Production13 ==
  /\ Reducing(13)
  /\ Reduce(13, Sem13(Dollars(13), lex))

\* term: UDP
Production14 ==
  /\ Reducing(14)
  /\ Reduce(14, Sem14(Dollars(14), lex))

\* term: ICMP
Production15 ==
  /\ Reducing(15)
  /\ Reduce(15, Sem15(Dollars(15), lex))

\* term: BEFORE time
Production16 ==
  /\ Reducing(16)
  /\ Reduce(16, Sem16(Dollars(16), lex))

\* term: AFTER time
Production17 ==
  /\ Reducing(17)
  /\ Reduce(17, Sem17(Dollars(17), lex))

\* term: BETWEEN time AND time
Production18 ==
  /\ Reducing(18)
  /\ Reduce(18, Sem18(Dollars(18), lex))

\* time: TIME
Production19 ==
  /\ Reducing(19)
  /\ Reduce(19, Sem19(Dollars(19), lex))

\* time: DURATION AGO
Production20 ==
  /\ Reducing(20)
  /\ Reduce(20, Sem20(Dollars(20), lex))

\* The states on the stack, from the top, that can shift "error".
RecoverAt(S) == {i \in 1..Len(S) : ErrorShift(S[i].yys)}

\* No shift and no reduction: a syntax error.  The grammar has no error
\* production, so recovery pops the whole stack and Parse returns 1.
SyntaxError ==
  /\ Ready
  /\ ShiftTarget(parserstate, parsertoken) < 0
  /\ DefaultAction(parserstate, parsertoken) = 0
  /\ LET msgs == IF Errflag = 0 THEN << <<"syntax error">> >> ELSE << >>
         top == parserS[Len(parserS)]
     IN /\ lex' = Errors(lex, msgs)
        /\ errlog' = errlog \o Logged(lex, msgs)
        /\ IF Errflag = 3
           THEN \* no shift since the last error: drop the lookahead
                /\ pc' = IF parsertoken = parserEofCode THEN "ret1" ELSE "newstate"
                /\ char' = IF parsertoken = parserEofCode THEN char ELSE -1
                /\ parsertoken' = IF parsertoken = parserEofCode THEN parsertoken ELSE -1
                /\ UNCHANGED << parserS, parserstate, Errflag >>
           ELSE /\ Errflag' = 3
                /\ UNCHANGED << char, parsertoken >>
                /\ IF RecoverAt(parserS) = {}
                   THEN /\ parserS' = << >>
                        /\ pc' = "ret1"
                        /\ UNCHANGED parserstate
                   ELSE LET i == CHOOSE i \in RecoverAt(parserS) :
                                   \A j \in RecoverAt(parserS) : j <= i
                            n == At(parserAct, At(parserPact, parserS[i].yys) + parserErrCode)
                        IN /\ parserS' = Append(SubSeq(parserS, 1, i), [yys |-> n, val |-> top.val])
                           /\ parserstate' = n
                           /\ pc' = "newstate"
  /\ UNCHANGED << lval, ret, clock, given, query, index, found, stats, span, rendered, calls >>

\* The exception table says accept: Parse returns 0.
Accept ==
  /\ Ready
  /\ ShiftTarget(parserstate, parsertoken) < 0
  /\ DefaultAction(parserstate, parsertoken) < 0
  /\ pc' = "ret0"
  /\ UNCHANGED << lex, parserS, parserstate, char, parsertoken, lval, Errflag,
                  ret, clock, errlog, given, query, index, found, stats, span, rendered, calls >>

\* Variant: parse hands back what was built whatever the sink holds.
parse_KeepsTree(x) ==
  [query |-> x.out, start |-> x.startTime, stop |-> x.stopTime, err |-> x.err]

\* What parse returns once parserParse is back.
parse(x) ==
  IF x.err # Nil
  THEN [query |-> Nil, start |-> 0, stop |-> 0, err |-> x.err]
  ELSE [query |-> x.out, start |-> x.startTime, stop |-> x.stopTime, err |-> Nil]

\* parse's return, which is NewQuery's.
Return ==
  /\ pc \in {"ret0", "ret1"}
  /\ ret' = parse(lex)
  /\ pc' = "done"
  /\ UNCHANGED << lex, parserS, parserstate, char, parsertoken, lval, Errflag,
                  clock, errlog, given, query, index, found, stats, span, rendered, calls >>

\* Time passes while the call runs.
MaxTicks == 1

Tick ==
  /\ Running
  /\ clock < lex.now + MaxTicks * Minute
  /\ clock' = clock + Minute
  /\ UNCHANGED << lex, parserS, parserstate, char, parsertoken, lval, Errflag,
                  pc, ret, errlog, given, query, index, found, stats, span, rendered, calls >>

(***************************************************************************)
(* The query texts the calls are made with.                                *)
(***************************************************************************)
\* The keywords as the texts spell them.
Word ==
  [host |-> << "h", "o", "s", "t" >>,
   port |-> << "p", "o", "r", "t" >>,
   proto |-> << "p", "r", "o", "t", "o" >>,
   net |-> << "n", "e", "t" >>,
   mask |-> << "m", "a", "s", "k" >>,
   and |-> << "a", "n", "d" >>,
   or |-> << "o", "r" >>,
   tcp |-> << "t", "c", "p" >>,
   udp |-> << "u", "d", "p" >>,
   icmp |-> << "i", "c", "m", "p" >>,
   before |-> << "b", "e", "f", "o", "r", "e" >>,
   after |-> << "a", "f", "t", "e", "r" >>,
   ip |-> << "i", "p" >>,
   ago |-> << "a", "g", "o" >>,
   vlan |-> << "v", "l", "a", "n" >>,
   mpls |-> << "m", "p", "l", "s" >>,
   between |-> << "b", "e", "t", "w", "e", "e", "n" >>,
   andand |-> << "&", "&" >>,
   oror |-> << "|", "|" >> ]

SP == << " " >>

\* IP literals: the text and the address it writes (nil: not an address).
IPLits ==
  << [text |-> << "1", ".", "2", ".", "3", ".", "4" >>,
       ip |-> << 1, 2, 3, 4 >>],
     [text |-> << "2", "5", "5", ".", "2", "5", "5", ".", "2", "5", "4", ".", "0" >>,
       ip |-> << 255, 255, 254, 0 >>],
     [text |-> << "1", ".", "2", ".", "3" >>,
       ip |-> Nil],
     [text |-> << "f", "e", "8", "0", ":", ":", "1", ":", "2" >>,
       ip |-> << 254, 128, 0, 0, 0, 0, 0, 0, 0, 0, 0, 0, 0, 1, 0, 2 >>],
     [text |-> << "f", "f", "f", "f", ":", "f", "f", "0", "0", ":", ":" >>,
       ip |-> << 255, 255, 255, 0, 0, 0, 0, 0, 0, 0, 0, 0, 0, 0, 0, 0 >>],
     [text |-> << ":", ":", "f", "f", "f", "f", ":", "1", ".", "2", ".", "3", ".", "4" >>,
       ip |-> << 1, 2, 3, 4 >>] >>

\* RFC 3339 literals: the text, whether it is a timestamp, and its instant in
\* seconds since 0001-01-01T00:00:00Z.
TimeLits ==
  << [text |-> << "0", "0", "0", "1", "-", "0", "1", "-", "0", "1", "T", "0", "0", ":", "0", "0", ":", "0", "0", "Z" >>,
       ok |-> TRUE, t |-> 0],
     [text |-> << "0", "0", "0", "1", "-", "0", "1", "-", "0", "1", "T", "0", "0", ":", "0", "1", ":", "0", "0", "Z" >>,
       ok |-> TRUE, t |-> 60],
     [text |-> << "0", "0", "0", "1", "-", "0", "1", "-", "0", "1", "T", "0", "0", ":", "0", "2", ":", "3", "0", "Z" >>,
       ok |-> TRUE, t |-> 150],
     [text |-> << "0", "0", "0", "1", "-", "0", "1", "-", "0", "1", "T", "0", "1", ":", "0", "1", ":", "0", "0", "+", "0", "1", ":", "0", "0" >>,
       ok |-> TRUE, t |-> 60],
     [text |-> << "0", "0", "0", "1", "-", "0", "1", "-", "0", "1", "T", "0", "0", ":", "1", "0", ":", "0", "0", "Z" >>,
       ok |-> TRUE, t |-> 600],
     [text |-> << "0", "0", "0", "0", "-", "1", "2", "-", "3", "1", "T", "2", "3", ":", "5", "9", ":", "0", "0", "Z" >>,
       ok |-> TRUE, t |-> -60],
     [text |-> << "0", "0", "0", "1", "-", "1", "3", "-", "0", "1", "T", "0", "0", ":", "0", "0", ":", "0", "0", "Z" >>,
       ok |-> FALSE, t |-> 0] >>

\* Duration literals: the text, whether it is a duration, and its seconds.
DurLits ==
  << [text |-> << "1", "m" >>, ok |-> TRUE, d |-> 60],
     [text |-> << "2", "m" >>, ok |-> TRUE, d |-> 120],
     [text |-> << "1", "h" >>, ok |-> TRUE, d |-> 3600],
     [text |-> << "f", "m" >>, ok |-> FALSE, d |-> 0] >>

\* Texts that are no chain of leaves, or are spaced otherwise.
RawTexts ==
  << << >>,
     << "l", "a", "s", "t", " ", "4" >>,
     << "p", "r", "o", "t", "o", "c", "o", "l", " ", "-", "1" >>,
     << "p", "r", "o", "t", "o", "c", "o", "l", " ", "2", "5", "6" >>,
     << "p", "o", "r", "t" >>,
     << "p", "o", "r", "t", " ", "p", "o", "r", "t" >>,
     << "t", "c", "p", " ", "t", "c", "p" >>,
     << "(", "t", "c", "p" >>,
     << "t", "c", "p", ")" >>,
     << "t", "c", "p", " ", "#" >>,
     << "#", " ", "t", "c", "p" >>,
     << "t", "c", "p", " ", "8", "a" >>,
     << "t", "c", "p", " ", "8", "a", " ", "a", "n", "d" >>,
     << "h", "o", "s", "t", "n", "a", "m", "e" >>,
     << "t", "c", "p", " ", "a", "n", "d" >>,
     << "a", "n", "d", " ", "t", "c", "p" >>,
     << "b", "e", "f", "o", "r", "e", " ", "1", "h" >>,
     << "1", ".", "5", "h" >>,
     << "t", "c", "p", "&", "&", "u", "d", "p", "|", "|", "i", "c", "m", "p" >>,
     << " ", "t", "c", "p", "\t" >>,
     << "p", "o", "r", "t", " ", "8", "0", "\n", "a", "n", "d", " ", "t", "c", "p" >>,
     << "(", "p", "o", "r", "t", " ", "8", "0", " ", "o", "r", " ", "(", "h", "o", "s", "t", " ", "1", ".", "2", ".", "3", ".", "4", " ", "a", "n", "d", " ", "t", "c", "p", ")", " ", "o", "r", " ", "p", "o", "r", "t", " ", "7", ")" >>,
     << "(", "u", "d", "p", " ", "&", "&", " ", "p", "o", "r", "t", " ", "5", "1", "4", ")", " ", "o", "r", " ", "(", "t", "c", "p", " ", "a", "n", "d", " ", "p", "o", "r", "t", " ", "8", "0", ")" >>,
     << "n", "e", "t", " ", "1", ".", "2", ".", "3", ".", "4", " ", "m", "a", "s", "k" >>,
     << "b", "e", "t", "w", "e", "e", "n", " ", "1", "m", " ", "a", "g", "o" >>,
     << "i", "p", " ", "p", "r", "o", "t", "o" >>,
     << "i", "p", " ", "6" >>,
     << "t", "c", "p", " ", "o", "r", " ", "#", " ", "p", "o", "r", "t", " ", "7", "7", "7", "7", "7" >>,
     << "a", "f", "t", "e", "r", " ", "-", "5", "m", " ", "a", "g", "o" >>,
     << "b", "e", "f", "o", "r", "e", " ", "1", ".", "5", "h", " ", "a", "g", "o" >> >>

NumLits == << -1, 0, 8, 255, 256, 65535, 65536, 77777, 99999, 1048575, 1048576 >>
BitLits == << 0, 8, 23, 32, 33, 44, 128, 129 >>

\* The decimal text of n.
RECURSIVE Digits(_)
Digits(n) ==
  LET d == << "0", "1", "2", "3", "4", "5", "6", "7", "8", "9" >>
  IN IF n < 10 THEN << At(d, n) >> ELSE Digits(n \div 10) \o << At(d, n % 10) >>

NumText(n) == IF n < 0 THEN << "-" >> \o Digits(-n) ELSE Digits(n)

\* A time operand: <<"at", a TimeLits entry>> or <<"ago", a DurLits entry>>.
TimeTerms ==
  [i \in 1..Len(TimeLits) |-> << "at", TimeLits[i] >>]
    \o [i \in 1..Len(DurLits) |-> << "ago", DurLits[i] >>]

TermText(tt) ==
  IF tt[1] = "at" THEN tt[2].text ELSE tt[2].text \o SP \o Word.ago

\* A leaf as the text writes it: the field and its operands.
LeafText(l) ==
  CASE l[1] \in {"port", "vlan", "mpls"} -> Word[l[1]] \o SP \o NumText(l[2])
    [] l[1] = "proto" -> Word.ip \o SP \o Word.proto \o SP \o NumText(l[2])
    [] l[1] \in {"tcp", "udp", "icmp"} -> Word[l[1]]
    [] l[1] = "host" -> Word.host \o SP \o l[2].text
    [] l[1] = "net" -> Word.net \o SP \o l[2].text \o << "/" >> \o NumText(l[3])
    [] l[1] = "mask" ->
         Word.net \o SP \o l[2].text \o SP \o Word.mask \o SP \o l[3].text
    [] l[1] \in {"before", "after"} -> Word[l[1]] \o SP \o TermText(l[2])
    [] l[1] = "between" ->
         Word.between \o SP \o TermText(l[2]) \o SP \o Word.and \o SP
           \o TermText(l[3])

\* Every product of two sequences, as a sequence.
Pairs(kind, A, B) ==
  [k \in 1..(Len(A) * Len(B)) |->
     << kind, A[((k - 1) \div Len(B)) + 1], B[((k - 1) % Len(B)) + 1] >>]

Each(kind, A) == [k \in 1..Len(A) |-> << kind, A[k] >>]

AllLeaves ==
  Each("port", NumLits) \o Each("vlan", NumLits) \o Each("mpls", NumLits)
    \o Each("proto", NumLits)
    \o << << "tcp" >>, << "udp" >>, << "icmp" >> >>
    \o Each("host", IPLits)
    \o Pairs("net", IPLits, BitLits)
    \o Pairs("mask", IPLits, IPLits)
    \o Each("before", TimeTerms) \o Each("after", TimeTerms)
    \o Pairs("between", TimeTerms, TimeTerms)

\* The leaves the longer chains are made of.
ChainLeaves ==
  << << "port", 8 >>, << "port", 77777 >>, << "port", 99999 >>, << "tcp" >> >>

TimeChainTerms ==
  << << "at", TimeLits[1] >>, << "at", TimeLits[2] >>, << "ago", DurLits[1] >> >>

TimeChainLeaves ==
  Each("before", TimeChainTerms) \o Each("after", TimeChainTerms)
    \o << << "between", << "at", TimeLits[2] >>, << "at", TimeLits[3] >> >>,
          << "between", << "at", TimeLits[3] >>, << "at", TimeLits[2] >> >>,
          << "between", << "ago", DurLits[2] >>, << "ago", DurLits[1] >> >>,
          << "between", << "at", TimeLits[1] >>, << "at", TimeLits[2] >> >> >>

\* Four different leaves, for the chains of four.
FourLeaves == << << "port", 8 >>, << "tcp" >>, << "udp" >>, << "icmp" >> >>

\* The operators as the texts spell them.
OpWords == << "and", "or", "andand", "oror" >>

\* The text of a chain: leaves joined by operators, with parentheses around
\* the leaves lo..hi when lo > 0.
RECURSIVE ChainText(_, _, _, _, _)
ChainText(leaves, ops, lo, hi, i) ==
  LET piece == (IF i = lo THEN << "(" >> ELSE << >>)
                 \o LeafText(leaves[i])
                 \o (IF i = hi THEN << ")" >> ELSE << >>)
  IN IF i = Len(leaves) THEN piece
     ELSE piece \o SP \o Word[ops[i]] \o SP
            \o ChainText(leaves, ops, lo, hi, i + 1)

Expr(leaves, ops, lo, hi) ==
  [kind |-> "expr", leaves |-> leaves, ops |-> ops, lo |-> lo, hi |-> hi]

Raw == [kind |-> "raw", leaves |-> << >>, ops |-> << >>, lo |-> 0, hi |-> 0]

MaxChain == 3
MaxTimeChain == 2
StartOfCall == 4000

(***************************************************************************)
(* String.  Texts are sequences of characters, as the query texts are.     *)
(***************************************************************************)
\* %d
Itoa(n) == NumText(n)

\* %x without leading zeros.
RECURSIVE HexText(_)
HexText(n) ==
  LET d == << "0", "1", "2", "3", "4", "5", "6", "7", "8", "9",
              "a", "b", "c", "d", "e", "f" >>
  IN IF n < 16 THEN << At(d, n) >> ELSE HexText(n \div 16) \o << At(d, n % 16) >>

\* The 16-bit groups of a 16-byte address.
Groups(ip) == [i \in 1..8 |-> ip[2 * i - 1] * 256 + ip[2 * i]]

\* The length of the run of zero groups that begins at group i.
RECURSIVE ZeroRun(_, _)
ZeroRun(g, i) == IF i > Len(g) \/ g[i] # 0 THEN 0 ELSE 1 + ZeroRun(g, i + 1)

\* The groups i.. joined by colons.
RECURSIVE HexGroups(_, _, _)
HexGroups(g, i, hi) ==
  IF i > hi THEN << >>
  ELSE HexText(g[i]) \o (IF i < hi THEN << ":" >> ELSE << >>) \o HexGroups(g, i + 1, hi)

\* net.IP.String (%v of an address): dotted decimal for 4 bytes, else the
\* groups in hexadecimal with the first longest run of two or more zero
\* groups written "::"; "<nil>" for no address.
IPString(ip) ==
  IF Len(ip) = 0 THEN << "<", "n", "i", "l", ">" >>
  ELSE IF Len(ip) = 4
  THEN Itoa(ip[1]) \o << "." >> \o Itoa(ip[2]) \o << "." >> \o Itoa(ip[3])
         \o << "." >> \o Itoa(ip[4])
  ELSE LET g == Groups(ip)
           best == CHOOSE i \in 1..8 :
                     /\ \A j \in 1..8 : ZeroRun(g, j) <= ZeroRun(g, i)
                     /\ \A j \in 1..(i - 1) : ZeroRun(g, j) < ZeroRun(g, i)
           n == ZeroRun(g, best)
       IN IF n < 2 THEN HexGroups(g, 1, 8)
          ELSE HexGroups(g, 1, best - 1) \o << ":", ":" >> \o HexGroups(g, best + n, 8)

\* Two decimal digits, and four.
Pad2(n) == (IF n < 10 THEN << "0" >> ELSE << >>) \o Digits(n)
Pad4(n) ==
  (IF n < 10 THEN << "0", "0", "0" >> ELSE IF n < 100 THEN << "0", "0" >>
   ELSE IF n < 1000 THEN << "0" >> ELSE << >>) \o Digits(n)

\* The year day d (days since 0001-01-01, may be negative) falls in.
RECURSIVE YearOf(_, _)
YearOf(d, y) ==
  IF d < DaysBeforeYear(y) THEN YearOf(d, y - 1)
  ELSE IF d >= DaysBeforeYear(y + 1) THEN YearOf(d, y + 1) ELSE y

RECURSIVE MonthOf(_, _, _)
MonthOf(yd, y, m) ==
  IF yd < DaysBeforeMonth(m + 1, y) THEN m ELSE MonthOf(yd, y, m + 1)

\* time.Time.Format(time.RFC3339), the instant written in UTC.
FormatTime(t) ==
  LET secs == t % (24 * Hour)
      d == (t - secs) \div (24 * Hour)
      y == YearOf(d, 1)
      yd == d - DaysBeforeYear(y)
      m == MonthOf(yd, y, 1)
  IN Pad4(y) \o << "-" >> \o Pad2(m) \o << "-" >>
       \o Pad2(yd - DaysBeforeMonth(m, y) + 1) \o << "T" >>
       \o Pad2(secs \div Hour) \o << ":" >> \o Pad2((secs % Hour) \div Minute)
       \o << ":" >> \o Pad2(secs % Minute) \o << "Z" >>

portQuery_String(q) == Word.port \o SP \o Itoa(q[2])
vlanQuery_String(q) == Word.vlan \o SP \o Itoa(q[2])
mplsQuery_String(q) == Word.mpls \o SP \o Itoa(q[2])
protocolQuery_String(q) == Word.ip \o SP \o Word.proto \o SP \o Itoa(q[2])
ipQuery_String(q) == Word.host \o SP \o IPString(q[2]) \o << "-" >> \o IPString(q[3])

timeQuery_String(a) ==
  IF ~IsZero(a[2]) /\ ~IsZero(a[3])
  THEN Word.between \o SP \o FormatTime(a[2]) \o SP \o Word.and \o SP
         \o FormatTime(a[3])
  ELSE IF IsZero(a[2]) THEN Word.before \o SP \o FormatTime(a[3])
  ELSE Word.after \o SP \o FormatTime(a[2])

RECURSIVE String(_)

\* strings.Join of the children's texts.
RECURSIVE JoinStrings(_, _, _)
JoinStrings(a, i, sep) ==
  IF i > Len(a) THEN << >>
  ELSE String(a[i]) \o (IF i < Len(a) THEN sep ELSE << >>) \o JoinStrings(a, i + 1, sep)

unionQuery_String(a) ==
  << "(" >> \o JoinStrings(a, 1, SP \o Word.or \o SP) \o << ")" >>

intersectQuery_String(a) ==
  << "(" >> \o JoinStrings(a, 1, SP \o Word.and \o SP) \o << ")" >>

\* Query.String: the method of the query's type.
String(q) ==
  CASE q[1] = "port" -> portQuery_String(q)
    [] q[1] = "vlan" -> vlanQuery_String(q)
    [] q[1] = "mpls" -> mplsQuery_String(q)
    [] q[1] = "proto" -> protocolQuery_String(q)
    [] q[1] = "ip" -> ipQuery_String(q)
    [] q[1] = "time" -> timeQuery_String(q)
    [] q[1] = "or" -> unionQuery_String(q[2])
    [] q[1] = "and" -> intersectQuery_String(q[2])

\* A caller renders the tree NewQuery returned.
Render ==
  /\ pc = "done"
  /\ ret.err = Nil
  /\ rendered' = String(ret.query)
  /\ pc' = "rendered"
  /\ UNCHANGED << lex, parserS, parserstate, char, parsertoken, lval, Errflag,
                  ret, clock, errlog, given, query, index, found, stats, span,
                  calls >>

\* The lookup counters before any lookup.
ZeroStats ==
  [indexBaseLookupsStarted |-> 0, indexBaseLookupsFinished |-> 0,
   indexSetLookupsStarted |-> 0, indexSetLookupsFinished |-> 0]

\* The state when parse has made its parserLex for the text.
Start(g, text) ==
  /\ given = g
  /\ clock = StartOfCall
  /\ lex = [now |-> StartOfCall, in |-> text, pos |-> 0, out |-> Nil, err |-> Nil,
            startTime |-> 0, stopTime |-> 0]
  /\ parserS = << >>
  /\ parserstate = 0
  /\ char = -1
  /\ parsertoken = -1
  /\ lval = ZeroSym
  /\ Errflag = 0
  /\ pc = "start"
  /\ ret = Nil
  /\ errlog = << >>
  /\ query = Nil
  /\ index = Nil
  /\ found = Nil
  /\ stats = ZeroStats
  /\ span = Nil
  /\ rendered = Nil
  /\ calls = Nil

StartExpr(leaves, ops, lo, hi) ==
  Start(Expr(leaves, ops, lo, hi), ChainText(leaves, ops, lo, hi, 1))

\* Operators of a chain of n leaves: any spelling first, words after it.
ChainOps(n) ==
  {ops \in [1..(n - 1) -> {"and", "or", "andand", "oror"}] :
     \A i \in 2..(n - 1) : ops[i] \in {"and", "or"}}

Init ==
  \/ \E i \in 1..Len(AllLeaves) : StartExpr(<< AllLeaves[i] >>, << >>, 0, 0)
  \/ \E n \in 2..MaxChain :
       \E pick \in [1..n -> 1..Len(ChainLeaves)], ops \in ChainOps(n) :
         StartExpr([i \in 1..n |-> ChainLeaves[pick[i]]], ops, 0, 0)
  \/ \E n \in 2..MaxTimeChain :
       \E pick \in [1..n -> 1..Len(TimeChainLeaves)], ops \in [1..(n - 1) -> {"and", "or"}] :
         StartExpr([i \in 1..n |-> TimeChainLeaves[pick[i]]], ops, 0, 0)
  \/ \E pick \in [1..3 -> {1, 2, 4}], ops \in [1..2 -> {"and", "or"}],
        par \in {<<1, 1>>, <<1, 2>>, <<2, 3>>, <<1, 3>>, <<3, 3>>} :
       StartExpr([i \in 1..3 |-> ChainLeaves[pick[i]]], ops, par[1], par[2])
  \/ \E ops \in [1..3 -> {"and", "or"}] : StartExpr(FourLeaves, ops, 0, 0)
  \/ \E i \in 1..Len(RawTexts) : Start(Raw, RawTexts[i])

Next ==
  \/ ParseStart \/ ReadToken \/ Shift
  \/ Production1 \/ Production2 \/ Production3 \/ Production4 \/ Production5
  \/ Production6 \/ Production7 \/ Production8 \/ Production9 \/ Production10
  \/ Production11 \/ Production12 \/ Production13 \/ Production14
  \/ Production15 \/ Production16 \/ Production17 \/ Production18
  \/ Production19 \/ Production20
  \/ SyntaxError \/ Accept \/ Return \/ Tick \/ Render

Spec == Init /\ [][Next]_vars

\* The leaves of a tree, left to right.
RECURSIVE LeavesOf(_)
RECURSIVE LeavesOfAll(_)
LeavesOf(q) == IF q[1] \in {"and", "or"} THEN LeavesOfAll(q[2]) ELSE << q >>
LeavesOfAll(qs) ==
  IF qs = << >> THEN << >> ELSE LeavesOf(Head(qs)) \o LeavesOfAll(Tail(qs))

(***************************************************************************)
(* Position sets (package base, which the source imports).                 *)
(***************************************************************************)
\* The set that stands for every position, and the empty one.
AllPositions == {-1}
NoPositions == {}

\* A nil Positions value: no positions.
NilPositions == {}

IsAllPositions(a) == a = AllPositions

Union(a, b) ==
  IF IsAllPositions(a) \/ IsAllPositions(b) THEN AllPositions ELSE a \cup b

Intersect(a, b) ==
  IF IsAllPositions(a) THEN b
  ELSE IF IsAllPositions(b) THEN a
  ELSE a \cap b

(***************************************************************************)
(* LookupIn.  A lookup returns [pos, err, trace]: the positions, the error *)
(* and the LookupIn calls it made, in the order they began; a call is      *)
(* [path, base, field]: the place of its query in the tree, whether the    *)
(* query is a leaf, and whether it asked the index for a field.            *)
(***************************************************************************)
MicrosPerSecond == 1000000

\* Where the Unix epoch lies on the time line of the model.
UnixEpoch == 300

\* filepath.Base
RECURSIVE TrimSlashes(_)
TrimSlashes(p) ==
  IF p # << >> /\ p[Len(p)] = "/" THEN TrimSlashes(SubSeq(p, 1, Len(p) - 1)) ELSE p

RECURSIVE LastElement(_, _)
LastElement(p, i) ==
  IF i = 0 THEN p
  ELSE IF p[i] = "/" THEN SubSeq(p, i + 1, Len(p)) ELSE LastElement(p, i - 1)

Base(p) ==
  IF p = << >> THEN << "." >>
  ELSE IF TrimSlashes(p) = << >> THEN << "/" >>
  ELSE LastElement(TrimSlashes(p), Len(TrimSlashes(p)))

\* strconv.ParseInt(s, 10, 64)
ParseInt(s) ==
  LET signed == s # << >> /\ s[1] \in {"+", "-"}
      digits == IF signed THEN Tail(s) ELSE s
  IN IF digits # << >> /\ AllDec(digits)
     THEN [ok |-> TRUE,
           v |-> IF signed /\ s[1] = "-" THEN -DecValue(digits) ELSE DecValue(digits)]
     ELSE [ok |-> FALSE, v |-> 0]

\* time.Unix(0, intval*1000), in whole seconds.
Unix(intval) == UnixEpoch + intval \div MicrosPerSecond

Call(path, base, field) == [path |-> path, base |-> base, field |-> field]

\* index.PortPositions, VLANPositions, MPLSPositions, ProtoPositions and
\* IPPositions: what the index file answers for the field.
FieldPositions(idx, q) == idx.table[q]

portQuery_LookupIn(q, idx, path) ==
  LET r == FieldPositions(idx, q)
  IN [pos |-> r.pos, err |-> r.err, trace |-> << Call(path, TRUE, TRUE) >>]

vlanQuery_LookupIn(q, idx, path) ==
  LET r == FieldPositions(idx, q)
  IN [pos |-> r.pos, err |-> r.err, trace |-> << Call(path, TRUE, TRUE) >>]

mplsQuery_LookupIn(q, idx, path) ==
  LET r == FieldPositions(idx, q)
  IN [pos |-> r.pos, err |-> r.err, trace |-> << Call(path, TRUE, TRUE) >>]

protocolQuery_LookupIn(q, idx, path) ==
  LET r == FieldPositions(idx, q)
  IN [pos |-> r.pos, err |-> r.err, trace |-> << Call(path, TRUE, TRUE) >>]

ipQuery_LookupIn(q, idx, path) ==
  LET r == FieldPositions(idx, q)
  IN [pos |-> r.pos, err |-> r.err, trace |-> << Call(path, TRUE, TRUE) >>]

\* Variant: the time leaf without the minute of slack.
timeQuery_NoSlack(a, idx, path) ==
  LET last == Base(idx.name)
      n == ParseInt(last)
      fileTime == Unix(n.v)
      hasStartTime == ~IsZero(a[2])
      hasStopTime == ~IsZero(a[3])
      skip == IF hasStartTime /\ hasStopTime
              THEN Before(fileTime, a[2]) \/ After(fileTime, a[3])
              ELSE \/ hasStartTime /\ Before(fileTime, a[2])
                   \/ hasStopTime /\ After(fileTime, a[3])
  IN IF ~n.ok
     THEN [pos |-> NilPositions, err |-> << "could not parse basename", last >>,
           trace |-> << Call(path, TRUE, FALSE) >>]
     ELSE [pos |-> IF skip THEN NoPositions ELSE AllPositions, err |-> Nil,
           trace |-> << Call(path, TRUE, FALSE) >>]

timeQuery_LookupIn(a, idx, path) ==
  LET last == Base(idx.name)
      n == ParseInt(last)
      fileTime == Unix(n.v)
      hasStartTime == ~IsZero(a[2])
      startTime == a[2] - Minute
      hasStopTime == ~IsZero(a[3])
      stopTime == a[3] + Minute
      skip == IF hasStartTime /\ hasStopTime
              THEN Before(fileTime, startTime) \/ After(fileTime, stopTime)
              ELSE IF hasStartTime /\ Before(fileTime, startTime) THEN TRUE
              ELSE hasStopTime /\ After(fileTime, stopTime)
  IN IF ~n.ok
     THEN [pos |-> NilPositions, err |-> << "could not parse basename", last >>,
           trace |-> << Call(path, TRUE, FALSE) >>]
     ELSE [pos |-> IF skip THEN NoPositions ELSE AllPositions, err |-> Nil,
           trace |-> << Call(path, TRUE, FALSE) >>]

RECURSIVE LookupIn(_, _, _)

\* Variant: a union that goes on past a child's error.
RECURSIVE UnionLoop_GoesOn(_, _, _, _, _, _)
UnionLoop_GoesOn(a, idx, path, i, positions, trace) ==
  IF i > Len(a) THEN [pos |-> positions, err |-> Nil, trace |-> trace]
  ELSE LET r == LookupIn(a[i], idx, Append(path, i))
       IN IF r.err # Nil
          THEN LET rest == UnionLoop_GoesOn(a, idx, path, i + 1, positions,
                                            trace \o r.trace)
               IN [pos |-> NilPositions, err |-> r.err, trace |-> rest.trace]
          ELSE UnionLoop_GoesOn(a, idx, path, i + 1, Union(positions, r.pos),
                                trace \o r.trace)

\* unionQuery.LookupIn's loop, from child i on.
RECURSIVE UnionLoop(_, _, _, _, _, _)
UnionLoop(a, idx, path, i, positions, trace) ==
  IF i > Len(a) THEN [pos |-> positions, err |-> Nil, trace |-> trace]
  ELSE LET r == LookupIn(a[i], idx, Append(path, i))
       IN IF r.err # Nil
          THEN [pos |-> NilPositions, err |-> r.err, trace |-> trace \o r.trace]
          ELSE UnionLoop(a, idx, path, i + 1, Union(positions, r.pos),
                         trace \o r.trace)

unionQuery_LookupIn(a, idx, path) ==
  UnionLoop(a, idx, path, 1, NilPositions, << Call(path, FALSE, FALSE) >>)

\* Variant: an intersection that takes the union of its children.
RECURSIVE IntersectLoop_Unites(_, _, _, _, _, _)
IntersectLoop_Unites(a, idx, path, i, positions, trace) ==
  IF i > Len(a) THEN [pos |-> positions, err |-> Nil, trace |-> trace]
  ELSE LET r == LookupIn(a[i], idx, Append(path, i))
       IN IF r.err # Nil
          THEN [pos |-> NilPositions, err |-> r.err, trace |-> trace \o r.trace]
          ELSE IntersectLoop_Unites(a, idx, path, i + 1, Union(positions, r.pos),
                                    trace \o r.trace)

\* intersectQuery.LookupIn's loop, from child i on.
RECURSIVE IntersectLoop(_, _, _, _, _, _)
IntersectLoop(a, idx, path, i, positions, trace) ==
  IF i > Len(a) THEN [pos |-> positions, err |-> Nil, trace |-> trace]
  ELSE LET r == LookupIn(a[i], idx, Append(path, i))
       IN IF r.err # Nil
          THEN [pos |-> NilPositions, err |-> r.err, trace |-> trace \o r.trace]
          ELSE IntersectLoop(a, idx, path, i + 1, Intersect(positions, r.pos),
                             trace \o r.trace)

intersectQuery_LookupIn(a, idx, path) ==
  IntersectLoop(a, idx, path, 1, AllPositions, << Call(path, FALSE, FALSE) >>)

\* Query.LookupIn: the method of the query's type.
LookupIn(q, idx, path) ==
  CASE q[1] = "port" -> portQuery_LookupIn(q, idx, path)
    [] q[1] = "vlan" -> vlanQuery_LookupIn(q, idx, path)
    [] q[1] = "mpls" -> mplsQuery_LookupIn(q, idx, path)
    [] q[1] = "proto" -> protocolQuery_LookupIn(q, idx, path)
    [] q[1] = "ip" -> ipQuery_LookupIn(q, idx, path)
    [] q[1] = "time" -> timeQuery_LookupIn(q, idx, path)
    [] q[1] = "or" -> unionQuery_LookupIn(q[2], idx, path)
    [] q[1] = "and" -> intersectQuery_LookupIn(q[2], idx, path)

\* log and the function it defers: each call counts as started and finished.
Count(trace, base) == Cardinality({i \in 1..Len(trace) : trace[i].base = base})

log(st, trace) ==
  [indexBaseLookupsStarted |-> st.indexBaseLookupsStarted + Count(trace, TRUE),
   indexBaseLookupsFinished |-> st.indexBaseLookupsFinished + Count(trace, TRUE),
   indexSetLookupsStarted |-> st.indexSetLookupsStarted + Count(trace, FALSE),
   indexSetLookupsFinished |-> st.indexSetLookupsFinished + Count(trace, FALSE)]

\* A caller looks the tree up in the index file.
Lookup ==
  /\ pc = "lookup"
  /\ found' = LookupIn(query, index, << >>)
  /\ stats' = log(stats, found'.trace)
  /\ pc' = "looked"
  /\ UNCHANGED << lex, parserS, parserstate, char, parsertoken, lval, Errflag,
                  ret, clock, errlog, given, query, index, span, rendered, calls >>

(***************************************************************************)
(* The trees and the index files the lookups are made with.                *)
(***************************************************************************)
\* Index file names: the text, whether its last element is a number, and
\* that number of microseconds.
IndexNames ==
  << [text |-> << "/", "i", "d", "x", "/", "5", "9", "0", "0", "0", "0", "0", "0" >>,
       ok |-> TRUE, micros |-> 59000000],
     [text |-> << "/", "i", "d", "x", "/", "6", "0", "0", "0", "0", "0", "0", "0" >>,
       ok |-> TRUE, micros |-> 60000000],
     [text |-> << "/", "i", "d", "x", "/", "2", "0", "0", "0", "0", "0", "0", "0", "0", "/" >>,
       ok |-> TRUE, micros |-> 200000000],
     [text |-> << "3", "6", "0", "0", "0", "0", "0", "0", "0" >>,
       ok |-> TRUE, micros |-> 360000000],
     [text |-> << "/", "i", "d", "x", "/", "3", "6", "1", "0", "0", "0", "0", "0", "0" >>,
       ok |-> TRUE, micros |-> 361000000],
     [text |-> << "/", "i", "d", "x", "/", "-", "6", "0", "0", "0", "0", "0", "0", "0" >>,
       ok |-> TRUE, micros |-> -60000000],
     [text |-> << "/", "i", "d", "x", "/", "t", "m", "p" >>,
       ok |-> FALSE, micros |-> 0],
     [text |-> << "/" >>,
       ok |-> FALSE, micros |-> 0] >>

\* What the index may answer for a field.
Answers ==
  << [pos |-> {1, 2}, err |-> Nil],
     [pos |-> {2, 3}, err |-> Nil],
     [pos |-> NilPositions, err |-> << "read failed" >>],
     [pos |-> NilPositions, err |-> << "context canceled" >>] >>

\* The leaves that ask the index for a field, and the time leaves.
FieldLeaves ==
  << << "port", 80 >>, << "ip", << 1, 2, 2, 0 >>, << 1, 2, 3, 255 >> >>,
     << "vlan", 7 >>, << "mpls", 9 >>, << "proto", 6 >> >>

TimeLeaves ==
  << << "time", 420, 0 >>, << "time", 420, 600 >>, << "time", 0, 600 >>,
     << "time", 0, 0 >> >>

\* The leaves the composite trees are made of: two of each sort.
TreeLeaves == SubSeq(FieldLeaves, 1, 2) \o SubSeq(TimeLeaves, 1, 2)

Range(f) == {f[i] : i \in DOMAIN f}

\* The binary trees with n leaves.
RECURSIVE Trees(_)
Trees(n) ==
  IF n = 1 THEN Range(TreeLeaves)
  ELSE UNION {{<< op, << l, r >> >> : op \in {"and", "or"}, l \in Trees(k),
                                       r \in Trees(n - k)} : k \in 1..(n - 1)}

MaxLeaves == 3

\* The index files a tree is looked up in: the fields the tree does not ask
\* for all answer alike.
IndexFiles(q, names) ==
  LET asked == Range(FieldLeaves) \cap Range(LeavesOf(q))
  IN {[name |-> IndexNames[i].text, said |-> IndexNames[i],
       table |-> [l \in Range(FieldLeaves) |->
                    IF l \in asked THEN u[l] ELSE Answers[1]]] :
        i \in names, u \in [asked -> Range(Answers)]}

StartLookup(q, idx) ==
  /\ query = q
  /\ index = idx
  /\ found = Nil
  /\ stats = ZeroStats
  /\ span = Nil
  /\ rendered = Nil
  /\ calls = Nil
  /\ pc = "lookup"
  /\ given = Raw
  /\ clock = StartOfCall
  /\ lex = Nil
  /\ parserS = << >>
  /\ parserstate = 0
  /\ char = -1
  /\ parsertoken = -1
  /\ lval = ZeroSym
  /\ Errflag = 0
  /\ ret = Nil
  /\ errlog = << >>

InitEval ==
  \/ \E q \in Range(FieldLeaves) \cup Range(TimeLeaves) :
       \E idx \in IndexFiles(q, 1..Len(IndexNames)) : StartLookup(q, idx)
  \/ \E n \in 2..MaxLeaves : \E q \in Trees(n) :
       \E idx \in IndexFiles(q, {2, 5, 7}) : StartLookup(q, idx)

NextEval == Lookup

SpecEval == InitEval /\ [][NextEval]_vars

(***************************************************************************)
(* GetTimeSpan.  Bounds are <<startTime, stopTime>>.                       *)
(***************************************************************************)
portQuery_GetTimeSpan(q, startTime, stopTime) == << startTime, stopTime >>
vlanQuery_GetTimeSpan(q, startTime, stopTime) == << startTime, stopTime >>
mplsQuery_GetTimeSpan(q, startTime, stopTime) == << startTime, stopTime >>
protocolQuery_GetTimeSpan(q, startTime, stopTime) == << startTime, stopTime >>
ipQuery_GetTimeSpan(q, startTime, stopTime) == << startTime, stopTime >>

timeQuery_GetTimeSpan(a, startTime, stopTime) ==
  LET hasStartTime == ~IsZero(a[2])
      startTime2 == a[2] - Minute
      hasStopTime == ~IsZero(a[3])
      stopTime2 == a[3] + Minute
      start == IF hasStartTime /\ (IsZero(startTime) \/ After(startTime, startTime2))
               THEN startTime2 ELSE startTime
      stop == IF hasStopTime /\ (IsZero(stopTime) \/ Before(stopTime, stopTime2))
              THEN stopTime2 ELSE stopTime
  IN << start, stop >>

RECURSIVE GetTimeSpan(_, _, _)

\* The loop of unionQuery.GetTimeSpan and intersectQuery.GetTimeSpan, from
\* child i on.
RECURSIVE SpanLoop(_, _, _, _)
SpanLoop(a, i, startTime, stopTime) ==
  IF i > Len(a) THEN << startTime, stopTime >>
  ELSE LET r == GetTimeSpan(a[i], startTime, stopTime)
       IN SpanLoop(a, i + 1, r[1], r[2])

unionQuery_GetTimeSpan(a, startTime, stopTime) == SpanLoop(a, 1, startTime, stopTime)

intersectQuery_GetTimeSpan(a, startTime, stopTime) == SpanLoop(a, 1, startTime, stopTime)

\* Query.GetTimeSpan: the method of the query's type.
GetTimeSpan(q, startTime, stopTime) ==
  CASE q[1] = "port" -> portQuery_GetTimeSpan(q, startTime, stopTime)
    [] q[1] = "vlan" -> vlanQuery_GetTimeSpan(q, startTime, stopTime)
    [] q[1] = "mpls" -> mplsQuery_GetTimeSpan(q, startTime, stopTime)
    [] q[1] = "proto" -> protocolQuery_GetTimeSpan(q, startTime, stopTime)
    [] q[1] = "ip" -> ipQuery_GetTimeSpan(q, startTime, stopTime)
    [] q[1] = "time" -> timeQuery_GetTimeSpan(q, startTime, stopTime)
    [] q[1] = "or" -> unionQuery_GetTimeSpan(q[2], startTime, stopTime)
    [] q[1] = "and" -> intersectQuery_GetTimeSpan(q[2], startTime, stopTime)

\* A caller asks the tree for its span, with the bounds it has.
TimeSpan ==
  /\ pc = "span"
  /\ LET r == GetTimeSpan(query, span.s, span.e)
     IN span' = [span EXCEPT !.start = r[1], !.stop = r[2]]
  /\ pc' = "spanned"
  /\ UNCHANGED << lex, parserS, parserstate, char, parsertoken, lval, Errflag,
                  ret, clock, errlog, given, query, index, found, stats,
                  rendered, calls >>

\* The leaves the trees asked for their span are made of, and the bounds the
\* callers have (0: unset).
SpanLeaves ==
  << << "time", 60, 0 >>, << "time", 660, 0 >>, << "time", 0, 600 >>,
     << "port", 80 >> >>

SpanSeeds == << 0, 540, 700 >>

\* The binary trees with n leaves, for GetTimeSpan.
RECURSIVE SpanTrees(_)
SpanTrees(n) ==
  IF n = 1 THEN Range(SpanLeaves)
  ELSE UNION {{<< op, << l, r >> >> : op \in {"and", "or"}, l \in SpanTrees(k),
                                       r \in SpanTrees(n - k)} : k \in 1..(n - 1)}

StartSpan(q, s, e) ==
  /\ query = q
  /\ span = [s |-> s, e |-> e, start |-> 0, stop |-> 0]
  /\ pc = "span"
  /\ rendered = Nil
  /\ calls = Nil
  /\ index = Nil
  /\ found = Nil
  /\ stats = ZeroStats
  /\ given = Raw
  /\ clock = StartOfCall
  /\ lex = Nil
  /\ parserS = << >>
  /\ parserstate = 0
  /\ char = -1
  /\ parsertoken = -1
  /\ lval = ZeroSym
  /\ Errflag = 0
  /\ ret = Nil
  /\ errlog = << >>

InitSpan ==
  \E s \in Range(SpanSeeds), e \in Range(SpanSeeds) :
    \/ \E q \in Range(SpanLeaves) \cup Range(TimeLeaves) \cup Range(FieldLeaves) :
         StartSpan(q, s, e)
    \/ \E n \in 2..MaxLeaves : \E q \in SpanTrees(n) : StartSpan(q, s, e)

NextSpan == TimeSpan

SpecSpan == InitSpan /\ [][NextSpan]_vars

(***************************************************************************)
(* Concurrent use.  Several callers look one tree up, each in its own      *)
(* index file, while others ask it for its span and its text.  A call of   *)
(* LookupIn is a stack of frames [q, i, positions]: the query of the       *)
(* method running, the child its loop is at, and its local positions; out  *)
(* is what the call that returned last gave, until the caller takes it.    *)
(* The steps of different callers interleave freely; the tree and the      *)
(* counters are what they share.                                           *)
(***************************************************************************)
NumCallers == 2

Callers == 1..NumCallers

IsBase(q) == q[1] \notin {"and", "or"}

\* Variant: the index file of the first caller is kept for all.
IndexFile_FirstCaller(c) == calls[1].index

\* The index file caller c's LookupIn was given, as passed down to the
\* children.
IndexFile(c) == calls[c].index

Top(c) == calls[c].stack[Len(calls[c].stack)]

Pop(c) == SubSeq(calls[c].stack, 1, Len(calls[c].stack) - 1)

\* The call of caller c has returned.
Returned(c) == calls[c].stack = << >> /\ calls[c].out # Nil

\* Another caller's LookupIn is running.
Overlaps(c) == \E d \in Callers \ {c} : calls[d].stack # << >>

\* log's first half and what the deferred half counts.
Started(st, q) ==
  IF IsBase(q)
  THEN [st EXCEPT !.indexBaseLookupsStarted = @ + 1]
  ELSE [st EXCEPT !.indexSetLookupsStarted = @ + 1]

Finished(st, q) ==
  IF IsBase(q)
  THEN [st EXCEPT !.indexBaseLookupsFinished = @ + 1]
  ELSE [st EXCEPT !.indexSetLookupsFinished = @ + 1]

Aside ==
  UNCHANGED << lex, parserS, parserstate, char, parsertoken, lval, Errflag, pc,
               ret, clock, errlog, given, query, index, found >>

\* LookupIn is called: on the tree by the caller, or on the child the loop of
\* the running method is at.
Enter(c) ==
  /\ calls[c].out = Nil
  /\ \/ calls[c].stack = << >>
     \/ /\ calls[c].stack # << >>
        /\ ~IsBase(Top(c).q)
        /\ Top(c).i <= Len(Top(c).q[2])
  /\ LET q == IF calls[c].stack = << >> THEN query ELSE Top(c).q[2][Top(c).i]
         frame == [q |-> q, i |-> 1,
                   positions |-> IF q[1] = "and" THEN AllPositions ELSE NilPositions]
     IN /\ calls' = [calls EXCEPT ![c].stack = Append(@, frame),
                                  ![c].met = @ \/ Overlaps(c)]
        /\ stats' = Started(stats, q)
  /\ Aside /\ UNCHANGED << span, rendered >>

\* A leaf's LookupIn returns what the index file gives.
Leaf(c) ==
  /\ calls[c].stack # << >>
  /\ IsBase(Top(c).q)
  /\ LET r == LookupIn(Top(c).q, IndexFile(c), << >>)
     IN calls' = [calls EXCEPT ![c].stack = Pop(c),
                               ![c].out = [pos |-> r.pos, err |-> r.err],
                               ![c].met = @ \/ Overlaps(c)]
  /\ stats' = Finished(stats, Top(c).q)
  /\ Aside /\ UNCHANGED << span, rendered >>

\* The loop of a composite takes the positions its child returned.
Took(c) ==
  /\ calls[c].stack # << >>
  /\ calls[c].out # Nil /\ calls[c].out.err = Nil
  /\ LET f == Top(c)
         positions == IF f.q[1] = "and" THEN Intersect(f.positions, calls[c].out.pos)
                      ELSE Union(f.positions, calls[c].out.pos)
     IN calls' = [calls EXCEPT
                    ![c].stack = Append(Pop(c), [f EXCEPT !.i = @ + 1,
                                                          !.positions = positions]),
                    ![c].out = Nil,
                    ![c].met = @ \/ Overlaps(c)]
  /\ Aside /\ UNCHANGED << stats, span, rendered >>

\* The loop of a composite returns its child's error.
Fail(c) ==
  /\ calls[c].stack # << >>
  /\ calls[c].out # Nil /\ calls[c].out.err # Nil
  /\ calls' = [calls EXCEPT ![c].stack = Pop(c),
                            ![c].out = [pos |-> NilPositions, err |-> calls[c].out.err],
                            ![c].met = @ \/ Overlaps(c)]
  /\ stats' = Finished(stats, Top(c).q)
  /\ Aside /\ UNCHANGED << span, rendered >>

\* The loop of a composite is over: it returns its positions.
Leave(c) ==
  /\ calls[c].stack # << >>
  /\ calls[c].out = Nil
  /\ ~IsBase(Top(c).q)
  /\ Top(c).i > Len(Top(c).q[2])
  /\ calls' = [calls EXCEPT ![c].stack = Pop(c),
                            ![c].out = [pos |-> Top(c).positions, err |-> Nil],
                            ![c].met = @ \/ Overlaps(c)]
  /\ stats' = Finished(stats, Top(c).q)
  /\ Aside /\ UNCHANGED << span, rendered >>

\* Meanwhile a caller asks the tree for its span, from unset bounds,
SpanMeanwhile ==
  /\ span = Nil
  /\ LET r == GetTimeSpan(query, 0, 0)
     IN span' = [s |-> 0, e |-> 0, start |-> r[1], stop |-> r[2]]
  /\ Aside /\ UNCHANGED << stats, rendered, calls >>

\* and one for its text.
StringMeanwhile ==
  /\ rendered = Nil
  /\ rendered' = String(query)
  /\ Aside /\ UNCHANGED << stats, span, calls >>

\* The trees the callers share and the index files they have.
SharedTrees ==
  { << "or", << << "time", 420, 600 >>, << "port", 80 >> >> >>,
    << "and", << << "or", << << "port", 80 >>, << "time", 420, 600 >> >> >>,
                 << "ip", << 1, 2, 2, 0 >>, << 1, 2, 3, 255 >> >> >> >> }

CallerFiles ==
  { [name |-> IndexNames[2].text, said |-> IndexNames[2],
     table |-> [l \in Range(FieldLeaves) |-> Answers[1]]],
    [name |-> IndexNames[5].text, said |-> IndexNames[5],
     table |-> [l \in Range(FieldLeaves) |->
                  IF l[1] = "port" THEN Answers[2] ELSE Answers[1]]],
    [name |-> IndexNames[7].text, said |-> IndexNames[7],
     table |-> [l \in Range(FieldLeaves) |->
                  IF l[1] = "ip" THEN Answers[3] ELSE Answers[1]]] }

StartCalls(q, files) ==
  /\ query = q
  /\ calls = [c \in Callers |->
                [index |-> files[c], stack |-> << >>, out |-> Nil, met |-> FALSE]]
  /\ given = [kind |-> "tree", leaves |-> << >>, ops |-> << >>, lo |-> 0, hi |-> 0,
              tree |-> q]
  /\ stats = ZeroStats
  /\ span = Nil
  /\ rendered = Nil
  /\ pc = "shared"
  /\ index = Nil
  /\ found = Nil
  /\ clock = StartOfCall
  /\ lex = Nil
  /\ parserS = << >>
  /\ parserstate = 0
  /\ char = -1
  /\ parsertoken = -1
  /\ lval = ZeroSym
  /\ Errflag = 0
  /\ ret = Nil
  /\ errlog = << >>

InitShared ==
  \E q \in SharedTrees, files \in [Callers -> CallerFiles] : StartCalls(q, files)

NextShared ==
  \/ \E c \in Callers : Enter(c)
  \/ \E c \in Callers : Leaf(c)
  \/ \E c \in Callers : Took(c)
  \/ \E c \in Callers : Fail(c)
  \/ \E c \in Callers : Leave(c)
  \/ SpanMeanwhile
  \/ StringMeanwhile

SpecShared == InitShared /\ [][NextShared]_vars

(***************************************************************************)
(* What the texts mean: the reference the parse results are held against.  *)
(***************************************************************************)
\* The instant a time operand names in a call that started at now.
TermTime(tt, now) == IF tt[1] = "at" THEN tt[2].t ELSE now - tt[2].d

\* Bit j of byte x.
RECURSIVE Pow2(_)
Pow2(j) == IF j = 0 THEN 1 ELSE 2 * Pow2(j - 1)
Bit(x, j) == (x \div Pow2(j)) % 2

\* Byte i of the mask of a prefix of b bits.
PrefixByte(b, i) ==
  IF b >= 8 * i THEN 255
  ELSE IF b <= 8 * (i - 1) THEN 0
  ELSE 256 - Pow2(8 * i - b)

\* from and to are the lowest and highest address of ip under mask, bit by bit.
IsRange(from, to, ip, mask) ==
  /\ Len(from) = Len(ip) /\ Len(to) = Len(ip)
  /\ \A i \in 1..Len(ip) : \A j \in 0..7 :
       /\ Bit(from[i], j) = Bit(ip[i], j) * Bit(mask[i], j)
       /\ Bit(to[i], j) = IF Bit(mask[i], j) = 1 THEN Bit(ip[i], j) ELSE 1

\* The leaf a well-formed, in-range leaf text stands for.
LeafQuery(l, now) ==
  CASE l[1] \in {"port", "vlan", "mpls", "proto"} -> << l[1], l[2] >>
    [] l[1] = "tcp" -> << "proto", 6 >>
    [] l[1] = "udp" -> << "proto", 17 >>
    [] l[1] = "icmp" -> << "proto", 1 >>
    [] l[1] = "host" -> << "ip", l[2].ip, l[2].ip >>
    [] l[1] = "before" -> << "time", 0, TermTime(l[2], now) >>
    [] l[1] = "after" -> << "time", TermTime(l[2], now), 0 >>
    [] l[1] = "between" -> << "time", TermTime(l[2], now), TermTime(l[3], now) >>
    [] OTHER -> Nil

\* The operator a spelling stands for.
OpKind(w) == IF w \in {"and", "andand"} THEN "and" ELSE "or"

\* qs[1] op[1] qs[2] op[2] ... folded from the left.
RECURSIVE LeftFold(_, _, _, _)
LeftFold(acc, qs, ops, i) ==
  IF i > Len(qs) THEN acc
  ELSE LeftFold(<< OpKind(ops[i - 1]), << acc, qs[i] >> >>, qs, ops, i + 1)

FoldAll(qs, ops) == LeftFold(qs[1], qs, ops, 2)

\* The tree of a chain: the parenthesised leaves lo..hi make one operand.
ExpectedTree(g, now) ==
  LET qs == [i \in 1..Len(g.leaves) |-> LeafQuery(g.leaves[i], now)]
  IN IF g.lo = 0 THEN FoldAll(qs, g.ops)
     ELSE LET inner == FoldAll(SubSeq(qs, g.lo, g.hi), SubSeq(g.ops, g.lo, g.hi - 1))
              qs2 == SubSeq(qs, 1, g.lo - 1) \o << inner >>
                       \o SubSeq(qs, g.hi + 1, Len(qs))
              ops2 == SubSeq(g.ops, 1, g.lo - 1) \o SubSeq(g.ops, g.hi, Len(g.ops))
          IN FoldAll(qs2, ops2)

Done == pc = "done"
Parsed == Done /\ ret.err = Nil
Failed == Done /\ ret.err # Nil

\* The chains of leaves none of which is a net leaf.
PlainChain == given.kind = "expr" /\ \A i \in 1..Len(given.leaves) :
                given.leaves[i][1] \notin {"net", "mask"}

(***************************************************************************)
(* C1.  A chain of leaves joined by and/&&/or/|| parses to the left-nested *)
(* tree of binary composites: both operators have the same precedence and  *)
(* associate to the left, the children are in the order of the text, and   *)
(* only parentheses change the grouping.                                   *)
(***************************************************************************)
C1_LeftNested ==
  Parsed /\ PlainChain => ret.query = ExpectedTree(given, lex.now)

\* "a and b or c and d" came back as And(Or(And(a, b), c), d).
C1_Witness ==
  /\ Parsed
  /\ given.leaves = FourLeaves /\ given.ops = << "and", "or", "and" >>
  /\ ret.query =
       << "and", << << "or", << << "and", << << "port", 8 >>, << "proto", 6 >> >> >>,
                                << "proto", 17 >> >> >>,
                    << "proto", 1 >> >> >>

(***************************************************************************)
(* C2.  NewQuery returns either a Query, the envelope and no error, or no  *)
(* Query, an unset envelope and an error; once any error was recorded the  *)
(* tree built so far and the envelope are dropped.                         *)
(***************************************************************************)
C2_TreeOrError ==
  Done =>
    /\ \/ /\ ret.err = Nil /\ ret.query # Nil
          /\ ret.start = lex.startTime /\ ret.stop = lex.stopTime
       \/ /\ ret.err # Nil /\ ret.query = Nil
          /\ ret.start = 0 /\ ret.stop = 0
    /\ errlog # << >> => ret.err # Nil

\* An error was returned although a tree and an envelope had been built.
C2_Witness ==
  Failed /\ lex.out # Nil /\ lex.startTime # 0 /\ lex.stopTime # 0

(***************************************************************************)
(* C3.  The error sink keeps the first error: after the first call of      *)
(* Error no later call changes the recorded error, and NewQuery returns    *)
(* the first error recorded.                                               *)
(***************************************************************************)
C3_FirstErrorWins ==
  /\ lex.err = IF errlog = << >> THEN Nil ELSE errlog[1]
  /\ Done => ret.err = lex.err

\* "port 77777 and port 99999" reported 77777, not 99999.
C3_Witness ==
  /\ Failed
  /\ given.leaves = << << "port", 77777 >>, << "port", 99999 >> >>
  /\ Len(errlog) = 2 /\ errlog[2][1] = << "invalid port", 99999 >>
  /\ ret.err[1] = << "invalid port", 77777 >>

(***************************************************************************)
(* C4.  port n and vlan n parse iff 0 <= n <= 65535, mpls n iff            *)
(* 0 <= n < 2^20, ip proto n iff 0 <= n <= 255; an out-of-range value      *)
(* fails the call wherever its leaf stands in the expression, and a        *)
(* returned tree holds the numbers as written, never a truncated one.      *)
(***************************************************************************)
IsNumeric(l) == l[1] \in {"port", "vlan", "mpls", "proto"}

InRange(l) ==
  CASE l[1] \in {"port", "vlan"} -> 0 <= l[2] /\ l[2] <= 65535
    [] l[1] = "mpls" -> 0 <= l[2] /\ l[2] < Pow2(20)
    [] l[1] = "proto" -> 0 <= l[2] /\ l[2] <= 255

C4_NumericRanges ==
  Done /\ given.kind = "expr" =>
    LET ls == given.leaves
    IN /\ Len(ls) = 1 /\ IsNumeric(ls[1]) => (ret.err = Nil <=> InRange(ls[1]))
       /\ (\E i \in 1..Len(ls) : IsNumeric(ls[i]) /\ ~InRange(ls[i])) => ret.err # Nil
       /\ ret.err = Nil =>
            /\ Len(LeavesOf(ret.query)) = Len(ls)
            /\ \A i \in 1..Len(ls) :
                 IsNumeric(ls[i]) =>
                   LeavesOf(ret.query)[i] = << ls[i][1], ls[i][2] >>

\* "port 8 and port 77777" failed on its second leaf.
C4_Witness ==
  /\ Failed
  /\ given.leaves = << << "port", 8 >>, << "port", 77777 >> >>
  /\ given.ops = << "and" >>
  /\ ret.err[1] = << "invalid port", 77777 >>

(***************************************************************************)
(* C5.  net A/B and net A mask M give the range from A & mask to           *)
(* A | ~mask, byte by byte, so both ends are as long as A and A lies       *)
(* between them; the call fails iff B is no prefix length for an address   *)
(* of A's length, or A and M differ in length; host A gives the range      *)
(* from A to A.                                                            *)
(***************************************************************************)
C5_NetRanges ==
  Done /\ given.kind = "expr" /\ Len(given.leaves) = 1 =>
    LET l == given.leaves[1]
        A == l[2].ip
    IN /\ l[1] = "host" /\ A # Nil => Parsed /\ ret.query = << "ip", A, A >>
       /\ l[1] = "net" /\ A # Nil =>
            /\ ret.err # Nil <=> l[3] > 8 * Len(A)
            /\ ret.err = Nil =>
                 /\ ret.query[1] = "ip"
                 /\ IsRange(ret.query[2], ret.query[3], A,
                            [i \in 1..Len(A) |-> PrefixByte(l[3], i)])
                 /\ \A i \in 1..Len(A) :
                      ret.query[2][i] <= A[i] /\ A[i] <= ret.query[3][i]
       /\ l[1] = "mask" /\ A # Nil /\ l[3].ip # Nil =>
            /\ ret.err # Nil <=> Len(A) # Len(l[3].ip)
            /\ ret.err = Nil =>
                 /\ ret.query[1] = "ip"
                 /\ IsRange(ret.query[2], ret.query[3], A, l[3].ip)
                 /\ \A i \in 1..Len(A) :
                      ret.query[2][i] <= A[i] /\ A[i] <= ret.query[3][i]

\* "net 1.2.3.4/23" gave 1.2.2.0 to 1.2.3.255.
C5_Witness ==
  /\ Parsed
  /\ given.leaves = << << "net", IPLits[1], 23 >> >>
  /\ ret.query = << "ip", << 1, 2, 2, 0 >>, << 1, 2, 3, 255 >> >>

(***************************************************************************)
(* C6.  between T1 and T2 is refused exactly when T1 is after T2, equal    *)
(* instants included in what is accepted, for timestamps and for           *)
(* "<duration> ago" alike; every ago of a call is taken from the one now   *)
(* of its start, so between D1 ago and D2 ago is accepted iff D1 >= D2     *)
(* however long the call runs.                                             *)
(***************************************************************************)
IsTimeLeaf(l) == l[1] \in {"before", "after", "between"}

TermOk(tt) == tt[2].ok

LeafOk(l) == TermOk(l[2]) /\ (l[1] = "between" => TermOk(l[3]))

\* The chains of time leaves whose operands are all well formed.
TimeChain ==
  /\ given.kind = "expr"
  /\ \A i \in 1..Len(given.leaves) :
       IsTimeLeaf(given.leaves[i]) /\ LeafOk(given.leaves[i])

C6_BetweenOrder ==
  Done /\ TimeChain =>
    LET ls == given.leaves
    IN /\ ret.err # Nil <=>
            \E i \in 1..Len(ls) :
              /\ ls[i][1] = "between"
              /\ TermTime(ls[i][2], lex.now) > TermTime(ls[i][3], lex.now)
       /\ Len(ls) = 1 /\ ls[1][1] = "between"
            /\ ls[1][2][1] = "ago" /\ ls[1][3][1] = "ago" =>
            (ret.err = Nil <=> ls[1][2][2].d >= ls[1][3][2].d)

\* "between 1m ago and 1m ago" was accepted by a call that took a minute.
C6_Witness ==
  /\ Parsed
  /\ given.leaves = << << "between", << "ago", DurLits[1] >>, << "ago", DurLits[1] >> >> >>
  /\ clock > lex.now
  /\ ret.query = << "time", lex.now - 60, lex.now - 60 >>

(***************************************************************************)
(* C7.  After a successful parse the envelope's start is the least start   *)
(* over the after and between leaves of the text (unset if there is none)  *)
(* and its stop the greatest stop over the before and between leaves       *)
(* (unset if there is none), without slack, whatever the order of the      *)
(* leaves and the operators around them.                                   *)
(***************************************************************************)
StartsOf(ls, now) ==
  {TermTime(ls[i][2], now) : i \in {j \in 1..Len(ls) : ls[j][1] \in {"after", "between"}}}

StopsOf(ls, now) ==
  {TermTime(ls[i][2], now) : i \in {j \in 1..Len(ls) : ls[j][1] = "before"}}
    \cup {TermTime(ls[i][3], now) : i \in {j \in 1..Len(ls) : ls[j][1] = "between"}}

Least(S) == CHOOSE m \in S : \A n \in S : m <= n
Greatest(S) == CHOOSE m \in S : \A n \in S : m >= n

C7_Envelope ==
  Parsed /\ TimeChain =>
    LET starts == StartsOf(given.leaves, lex.now)
        stops == StopsOf(given.leaves, lex.now)
    IN /\ ret.start = IF starts = {} THEN 0 ELSE Least(starts)
       /\ ret.stop = IF stops = {} THEN 0 ELSE Greatest(stops)

(***************************************************************************)
(* C8.  Looking a time leaf up in an index file whose name ends in a       *)
(* number of microseconds t asks the index for no field and returns every  *)
(* position iff t lies in [start - 1 minute, stop + 1 minute], a missing   *)
(* bound leaving that side open, and no position otherwise; nothing else   *)
(* can come back.                                                          *)
(***************************************************************************)
Looked == pc = "looked"

\* The instant the file's name gives, by what the name was written to say.
FileTime == UnixEpoch + index.said.micros \div MicrosPerSecond

C8_TimeLeaf ==
  Looked /\ query[1] = "time" /\ index.said.ok =>
    LET inside == /\ query[2] # 0 => query[2] - Minute <= FileTime
                  /\ query[3] # 0 => FileTime <= query[3] + Minute
    IN /\ found.err = Nil
       /\ found.pos \in {AllPositions, NoPositions}
       /\ found.pos = AllPositions <=> inside
       /\ \A i \in 1..Len(found.trace) : ~found.trace[i].field

\* A file named for the very end of the slack after the leaf's stop is taken.
C8_Witness ==
  /\ Looked
  /\ query = << "time", 420, 600 >>
  /\ index.said.ok /\ FileTime = 600 + Minute
  /\ found.pos = AllPositions

(***************************************************************************)
(* C9.  When every lookup of the index succeeds, And(l, r) is the          *)
(* intersection and Or(l, r) the union of what the children give, so the   *)
(* result does not change when the children swap places, when a chain is   *)
(* grouped the other way, or when a tree is combined with itself.          *)
(***************************************************************************)
MaxPos == 3

\* Position p belongs to the set a.
Has(a, p) == IsAllPositions(a) \/ p \in a

Value(q) == LookupIn(q, index, << >>)

\* No lookup of the tree in the index fails.
AllSucceed ==
  /\ index.said.ok
  /\ \A i \in 1..Len(LeavesOf(query)) :
       LET l == LeavesOf(query)[i]
       IN l[1] # "time" => index.table[l].err = Nil

Node(op, l, r) == << op, << l, r >> >>

C9_SetAlgebra ==
  Looked /\ AllSucceed =>
    /\ found.err = Nil /\ found.pos = Value(query).pos
    /\ Value(Node("and", query, query)).pos = found.pos
    /\ Value(Node("or", query, query)).pos = found.pos
    /\ query[1] \in {"and", "or"} =>
         LET op == query[1]
             l == query[2][1]
             r == query[2][2]
         IN /\ \A p \in 1..MaxPos :
                 Has(found.pos, p) <=>
                   IF op = "and"
                   THEN Has(Value(l).pos, p) /\ Has(Value(r).pos, p)
                   ELSE Has(Value(l).pos, p) \/ Has(Value(r).pos, p)
            /\ IsAllPositions(found.pos) <=>
                 IF op = "and"
                 THEN IsAllPositions(Value(l).pos) /\ IsAllPositions(Value(r).pos)
                 ELSE IsAllPositions(Value(l).pos) \/ IsAllPositions(Value(r).pos)
            /\ Value(Node(op, r, l)).pos = found.pos
            /\ l[1] = op =>
                 Value(Node(op, l[2][1], Node(op, l[2][2], r))).pos = found.pos

\* And(And(port, ip), time) gave the one position both fields share.
C9_Witness ==
  /\ Looked /\ AllSucceed
  /\ query = Node("and", Node("and", FieldLeaves[1], FieldLeaves[2]), TimeLeaves[1])
  /\ index.table[FieldLeaves[1]].pos = {1, 2}
  /\ index.table[FieldLeaves[2]].pos = {2, 3}
  /\ found.pos = {2}

(***************************************************************************)
(* C10.  Lookup stops at the first error: children are looked up from the  *)
(* left; once a child fails, nothing to its right is looked up anywhere in *)
(* the tree, the error comes back from the root as the child gave it, with *)
(* no positions, and no lookup is made twice.                              *)
(***************************************************************************)
\* The places of the leaves of a tree, left to right.
RECURSIVE PathsOf(_, _)
PathsOf(q, path) ==
  IF q[1] \in {"and", "or"}
  THEN PathsOf(q[2][1], Append(path, 1)) \o PathsOf(q[2][2], Append(path, 2))
  ELSE << path >>

\* The error looking leaf l up gives, nil if it gives none.
LeafError(l) ==
  IF l[1] = "time"
  THEN IF index.said.ok THEN Nil
       ELSE << "could not parse basename", Base(index.name) >>
  ELSE index.table[l].err

\* The leaves whose lookup fails, by their place from the left.
Failing == {i \in 1..Len(LeavesOf(query)) : LeafError(LeavesOf(query)[i]) # Nil}

\* The calls of the trace made on leaves.
SelectBase(trace) == SelectSeq(trace, LAMBDA c : c.base)

C10_FailFast ==
  Looked =>
    LET paths == PathsOf(query, << >>)
        last == IF Failing = {} THEN Len(paths) ELSE Least(Failing)
        leafCalls == SelectBase(found.trace)
    IN /\ Len(leafCalls) = last
       /\ \A i \in 1..last : leafCalls[i].path = paths[i]
       /\ \A i, j \in 1..Len(found.trace) :
            found.trace[i].path = found.trace[j].path => i = j
       /\ Failing # {} =>
            /\ found.err = LeafError(LeavesOf(query)[last])
            /\ found.pos = NilPositions
       /\ Failing = {} => found.err = Nil

\* Or(port, And(ip, port)): the port failed and the right child was never
\* looked up.
C10_Witness ==
  /\ Looked
  /\ query = Node("or", FieldLeaves[1], Node("and", FieldLeaves[2], FieldLeaves[1]))
  /\ index.table[FieldLeaves[1]].err = << "read failed" >>
  /\ index.table[FieldLeaves[2]].err = << "context canceled" >>
  /\ found.err = << "read failed" >>
  /\ Len(found.trace) = 2

(***************************************************************************)
(* C11.  GetTimeSpan with unset bounds on a tree holding after A and       *)
(* before B (A <= B) returns (A - 1 minute, B + 1 minute); on a tree with  *)
(* no time leaf it returns the bounds it was given; and it only widens: a  *)
(* set start given is never increased, a set stop given never decreased.   *)
(***************************************************************************)
Spanned == pc = "spanned"

\* The time leaves of the tree, left to right.
TimeLeavesOf(q) == SelectSeq(LeavesOf(q), LAMBDA l : l[1] = "time")

C11_TimeSpan ==
  Spanned =>
    LET ts == TimeLeavesOf(query)
    IN /\ ts = << >> => span.start = span.s /\ span.stop = span.e
       /\ span.s = 0 /\ span.e = 0 =>
            \A A, B \in {t \in -60..700 : t # 0} :
              A <= B /\ Range(ts) = {<< "time", A, 0 >>, << "time", 0, B >>} =>
                span.start = A - Minute /\ span.stop = B + Minute
       /\ span.s # 0 => span.start <= span.s
       /\ span.e # 0 => span.stop >= span.e

(***************************************************************************)
(* C12.  What GetTimeSpan returns does not depend on the order of a        *)
(* composite's children nor on its operator: And(l, r), And(r, l),         *)
(* Or(l, r) and Or(r, l) give the same span from the same bounds,          *)
(* whatever the leaves' instants.                                          *)
(***************************************************************************)
C12_SpanOrder ==
  Spanned /\ query[1] \in {"and", "or"} =>
    LET l == query[2][1]
        r == query[2][2]
        out == << span.start, span.stop >>
    IN \A op \in {"and", "or"} :
         /\ GetTimeSpan(Node(op, l, r), span.s, span.e) = out
         /\ GetTimeSpan(Node(op, r, l), span.s, span.e) = out

(***************************************************************************)
(* C13.  A character that starts no keyword and no literal and is none of  *)
(* / ( ) is a lexical error: a text with such a character where a token    *)
(* would start makes NewQuery return an error, be it at the start,         *)
(* between tokens or after a complete expression.                          *)
(***************************************************************************)
\* The texts of the model write "#" only where a token would start.
HasUnknownChar(in) == \E i \in 1..Len(in) : in[i] = "#"

C13_UnknownChar ==
  Done /\ given.kind = "raw" /\ HasUnknownChar(lex.in) => ret.err # Nil

(***************************************************************************)
(* C16.  A literal run that ends because an m or an h was consumed is a    *)
(* DURATION token, whatever else the run holds: the rule comes before the  *)
(* timestamp rule and the IP rule, so the token is never TIME or IP.       *)
(***************************************************************************)
\* A step is a call of Lex that consumed characters, the last an m or an h:
\* no keyword ends so, and white space is skipped before the run.
LexedDurationRun ==
  /\ pc = "newstate" /\ pc' = "decide"
  /\ lex'.pos > lex.pos
  /\ lex'.in[lex'.pos] \in {"m", "h"}

C16_DurationFirst == [][LexedDurationRun => char' = DURATION]_vars

(***************************************************************************)
(* C15.  The String of the node a valid leaf parses to is the leaf's field *)
(* and its value: read by the lexer again the text is the field's          *)
(* keywords followed by the literal of the value and nothing else -        *)
(* port/vlan/mpls/ip proto and a number, host and an address, net and the  *)
(* network, before/after and the instant, between and both instants; tcp,  *)
(* udp and icmp give ip proto 6, 17 and 1.                                 *)
(***************************************************************************)
Rendered == pc = "rendered"

\* The tokens Lex makes of in from pos on, each with the value it carries,
\* up to and including the end of input (0) or the first token that is none.
RECURSIVE Tokens(_, _)
Tokens(in, pos) ==
  LET r == Lex(in, pos, ZeroSym)
      v == CASE r.ret = NUM -> r.lval.num
             [] r.ret = IP -> r.lval.ip
             [] r.ret = TIME -> r.lval.time
             [] OTHER -> 0
  IN IF r.errs # << >> THEN << << -1, 0 >> >>
     ELSE IF r.ret <= 0 THEN << << r.ret, 0 >> >>
     ELSE << << r.ret, v >> >> \o Tokens(in, r.pos)

Kw(t) == << t, 0 >>
Eof == << 0, 0 >>

\* The network the tokens after "net" name is the range from..to.
NamesNet(ts, from, to) ==
  /\ Len(ts) = 5
  /\ ts[1] = Kw(NET) /\ ts[2][1] = IP /\ ts[5] = Eof
  /\ \/ /\ ts[3] = Kw(CharCode("/")) /\ ts[4][1] = NUM
        /\ ts[4][2] \in 0..(8 * Len(ts[2][2]))
        /\ IsRange(from, to, ts[2][2],
                   [i \in 1..Len(ts[2][2]) |-> PrefixByte(ts[4][2], i)])
     \/ /\ ts[3] = Kw(MASK) /\ ts[4][1] = IP
        /\ IsRange(from, to, ts[2][2], ts[4][2])

\* The tokens ts are the field and the value of the leaf l, which parsed to q
\* in a call that started at now.
FieldAndValue(ts, l, q, now) ==
  CASE l[1] = "port" -> ts = << Kw(PORT), << NUM, l[2] >>, Eof >>
    [] l[1] = "vlan" -> ts = << Kw(VLAN), << NUM, l[2] >>, Eof >>
    [] l[1] = "mpls" -> ts = << Kw(MPLS), << NUM, l[2] >>, Eof >>
    [] l[1] = "proto" -> ts = << Kw(IPP), Kw(PROTO), << NUM, l[2] >>, Eof >>
    [] l[1] = "tcp" -> ts = << Kw(IPP), Kw(PROTO), << NUM, 6 >>, Eof >>
    [] l[1] = "udp" -> ts = << Kw(IPP), Kw(PROTO), << NUM, 17 >>, Eof >>
    [] l[1] = "icmp" -> ts = << Kw(IPP), Kw(PROTO), << NUM, 1 >>, Eof >>
    [] l[1] = "host" -> ts = << Kw(HOST), << IP, l[2].ip >>, Eof >>
    [] l[1] \in {"net", "mask"} -> NamesNet(ts, q[2], q[3])
    [] l[1] = "before" ->
         ts = << Kw(BEFORE), << TIME, TermTime(l[2], now) >>, Eof >>
    [] l[1] = "after" ->
         ts = << Kw(AFTER), << TIME, TermTime(l[2], now) >>, Eof >>
    [] l[1] = "between" ->
         ts = << Kw(BETWEEN), << TIME, TermTime(l[2], now) >>, Kw(AND),
                 << TIME, TermTime(l[3], now) >>, Eof >>

C15_LeafRendering ==
  Rendered /\ given.kind = "expr" /\ Len(given.leaves) = 1 =>
    FieldAndValue(Tokens(rendered, 0), given.leaves[1], ret.query, lex.now)

(***************************************************************************)
(* C17.  Skipping the files outside the envelope loses nothing: when the   *)
(* instant of an index file's name lies before the start or after the stop *)
(* that GetTimeSpan gives for the tree from unset bounds (an unset bound    *)
(* excludes no file), looking the tree up in that file gives no position - *)
(* for every tree, also an Or of time leaves with other leaves or with     *)
(* each other.                                                             *)
(***************************************************************************)
\* The envelope of the tree: GetTimeSpan from unset bounds.
Envelope(q) == [start |-> GetTimeSpan(q, 0, 0)[1], stop |-> GetTimeSpan(q, 0, 0)[2]]

\* The file of the lookup would be skipped.
Pruned ==
  \/ ~IsZero(Envelope(query).start) /\ Before(FileTime, Envelope(query).start)
  \/ ~IsZero(Envelope(query).stop) /\ After(FileTime, Envelope(query).stop)

C17_PruningSound ==
  Looked /\ AllSucceed /\ Pruned => found.err = Nil /\ found.pos = NoPositions

(***************************************************************************)
(* C14.  A tree in use by several callers at once stays the tree that was  *)
(* built, and every call made of it returns what it would return alone:    *)
(* LookupIn the positions and error of the caller's own index file,        *)
(* GetTimeSpan the tree's span, String the tree's text - whatever the      *)
(* other callers are doing and in whatever order their steps fall.         *)
(***************************************************************************)
\* What LookupIn gives for the tree and caller c's index file with no other
\* caller about.
Alone(c) ==
  LET r == LookupIn(given.tree, calls[c].index, << >>)
  IN [pos |-> r.pos, err |-> r.err]

C14_SharedTree ==
  pc = "shared" =>
    /\ query = given.tree
    /\ \A c \in Callers : Returned(c) => calls[c].out = Alone(c)
    /\ span # Nil =>
         << span.start, span.stop >> = GetTimeSpan(given.tree, 0, 0)
    /\ rendered # Nil => rendered = String(given.tree)

\* Two lookups that ran at the same time, in different index files, have
\* returned different positions, and the span and the text were asked for.
C14_Witness ==
  /\ pc = "shared"
  /\ \A c \in Callers : Returned(c) /\ calls[c].met
  /\ calls[1].index # calls[2].index
  /\ calls[1].out.err = Nil /\ calls[2].out.err = Nil
  /\ calls[1].out.pos # calls[2].out.pos
  /\ span # Nil /\ rendered # Nil

=============================================================================
